---- MODULE Spec2Model ----
(***************************************************************************)
(* HealthClaw server: the SQLite store (server/database.py) and the sync   *)
(* endpoint (server/main.py) as a state machine.                           *)
(*                                                                         *)
(* Tables are sets of rows, each row a record carrying its rowid.  An      *)
(* optional value (Python None, SQL NULL) is the empty tuple, a present    *)
(* value v is <<v>>.  A datetime is [day, hm]; its calendar date           *)
(* (strftime "%Y-%m-%d") is the day, its isoformat() the pair <<day, hm>>. *)
(* REAL columns are integers here; valences are in tenths.                 *)
(***************************************************************************)
EXTENDS Integers, Sequences, FiniteSets, TLC

\* ------------------------------------------------------------------ bounds

\* Accepted syncs per run.
MaxSyncs == 2

\* Calendar dates a payload's period_to may fall on: 1..MaxDay.
MaxDay == 2

Days == 1 .. MaxDay

\* ------------------------------------------------------------ basic values

None == << >>

Some(v) == << v >>

DT(d, t) == [day |-> d, hm |-> t]

\* dt.strftime("%Y-%m-%d")
DateStr(dt) == dt.day

\* dt.isoformat(): compares as text, i.e. by day and then by time of day.
IsoFormat(dt) == << dt.day, dt.hm >>

\* The mutant of OrNone: the total is passed as it is.
KeepZero(x) == Some(x)

\* Python `x or None` on a number: 0 (and 0.0) is falsy.
OrNone(x) == IF x = 0 THEN None ELSE Some(x)

\* `a.f if a else None` for an optional sub-record a.
FieldOf(a, f) == IF a = None THEN None ELSE a[1][f]

\* The mutant of Coalesce: a blanket overwrite, `col = excluded.col`.
CoalesceOverwrite(new, old) == new

\* SQL COALESCE(excluded.col, col)
Coalesce(new, old) == IF new # None THEN new ELSE old

RECURSIVE SumSeq(_)
SumSeq(s) == IF s = << >> THEN 0 ELSE Head(s) + SumSeq(Tail(s))

\* (x.f for x in s)
Column(s, f) == [i \in 1 .. Len(s) |-> s[i][f]]

SetMax(S) == CHOOSE m \in S : \A x \in S : x <= m

\* ------------------------------------------------------------------ schema

ActivityCols ==
    {"steps", "distance_km", "active_calories", "exercise_minutes",
     "stand_hours", "flights_climbed"}

HeartCols == {"resting_hr", "avg_hr", "hrv_sdnn"}

SleepCols ==
    {"sleep_duration_min", "deep_sleep_min", "rem_sleep_min",
     "core_sleep_min", "awake_min"}

BodyCols == {"weight_kg", "body_fat_pct"}

VitalsCols == {"blood_oxygen_pct", "respiratory_rate"}

WorkoutCols == {"workout_count", "workout_minutes", "workout_calories"}

\* The 24 data columns of daily_summary (all but id, date, updated_at).
DataCols ==
    ActivityCols \cup HeartCols \cup SleepCols \cup BodyCols \cup VitalsCols
    \cup WorkoutCols
    \cup {"body_battery", "mood_avg_valence", "mindfulness_minutes"}

Tables == {"sync_log", "daily_summary", "workouts", "mood_entries", "sleep_sessions"}

\* A fresh database file: CREATE TABLE IF NOT EXISTS creates every table empty.
\* seq is sqlite_sequence (AUTOINCREMENT), sleep_unique whether sleep_sessions
\* carries UNIQUE(date, start_time).
EmptyDb ==
    [sync_log |-> {}, daily_summary |-> {}, workouts |-> {}, mood_entries |-> {},
     sleep_sessions |-> {}, seq |-> [t \in Tables |-> 0], sleep_unique |-> TRUE]

\* ---------------------------------------------------------------- payloads

\* ActivityData: the six fields store_sync reads.
ActFull ==
    [steps |-> Some(8000), distance_km |-> Some(6), active_calories |-> Some(400),
     exercise_minutes |-> Some(30), stand_hours |-> Some(10),
     flights_climbed |-> Some(5)]

\* A directly reported zero, every other field unset.
ActZero ==
    [steps |-> Some(0), distance_km |-> None, active_calories |-> None,
     exercise_minutes |-> None, stand_hours |-> None, flights_climbed |-> None]

HeartRest == [resting_hr |-> Some(55), avg_hr |-> None, hrv_sdnn |-> None]

HeartFull == [resting_hr |-> Some(60), avg_hr |-> Some(72), hrv_sdnn |-> Some(45)]

BodyW == [weight_kg |-> Some(80), body_fat_pct |-> None]

VitalsV == [blood_oxygen_pct |-> Some(98), respiratory_rate |-> Some(14)]

Stage(name, min) == [stage |-> name, duration_min |-> min]

\* An overnight session: starts the evening before day d, ends on d.
Night(d) ==
    [start |-> DT(d - 1, 22), end |-> DT(d, 6), total_duration_min |-> 420,
     in_bed_duration_min |-> Some(480),
     stages |-> << Stage("deep", 100), Stage("rem", 90), Stage("core", 200),
                   Stage("awake", 30) >>]

\* The second device's shorter recording of the same night.
Watch(d) ==
    [start |-> DT(d, 1), end |-> DT(d, 6), total_duration_min |-> 90,
     in_bed_duration_min |-> None, stages |-> << Stage("core", 90) >>]

\* Night(d) resubmitted: same start, later end, other durations and stages.
Redo(d) ==
    [start |-> DT(d - 1, 22), end |-> DT(d, 7), total_duration_min |-> 300,
     in_bed_duration_min |-> Some(310),
     stages |-> << Stage("deep", 50), Stage("deep", 60) >>]

\* A session of no duration.
Blink(d) ==
    [start |-> DT(d, 2), end |-> DT(d, 2), total_duration_min |-> 0,
     in_bed_duration_min |-> None, stages |-> << >>]

SleepLists(d) ==
    { << Night(d) >>, << Watch(d) >>, << Watch(d), Night(d) >>, << Redo(d) >>,
      << Blink(d) >>, << Night(d - 1), Watch(d - 1) >> }

Run(d) ==
    [workout_type |-> "run", start |-> DT(d, 6), end |-> DT(d, 7),
     duration_min |-> 30, distance_km |-> Some(5), active_calories |-> Some(300),
     avg_hr |-> Some(140), max_hr |-> Some(170), elevation_gain_m |-> None]

Stretch(d) ==
    [workout_type |-> "stretch", start |-> DT(d, 22), end |-> DT(d, 22),
     duration_min |-> 0, distance_km |-> None, active_calories |-> None,
     avg_hr |-> None, max_hr |-> None, elevation_gain_m |-> None]

WorkoutLists(d) == { << Run(d) >>, << Run(d - 1), Run(d) >> }

Mood(d, v) ==
    [kind |-> "daily_mood", timestamp |-> DT(d, 6), valence |-> v,
     labels |-> << "calm" >>, associations |-> << >>]

\* Valences in tenths; every list has an integral mean.
MoodLists(d) == { << Mood(d, 10) >>, << Mood(d - 1, -4), Mood(d, 6) >> }

Mindful(d, min) == [start |-> DT(d, 6), end |-> DT(d, 6), duration_min |-> min]

\* HealthSyncPayload with nothing but the required fields, period_to on day d.
Bare(d) ==
    [device_id |-> "phone", synced_at |-> DT(d, 22), period_from |-> DT(d - 1, 22),
     period_to |-> DT(d, 22), activity |-> None, heart |-> None, sleep |-> << >>,
     workouts |-> << >>, mood |-> << >>, body |-> None, vitals |-> None,
     mindfulness |-> << >>, body_battery |-> None]

\* A payload carrying every category at once.
Full(d) ==
    [Bare(d) EXCEPT !.activity = Some(ActFull), !.heart = Some(HeartFull),
                    !.sleep = << Night(d), Watch(d) >>,
                    !.workouts = << Run(d), Run(d - 1) >>,
                    !.mood = << Mood(d, 10), Mood(d, -10) >>,
                    !.body = Some(BodyW), !.vitals = Some(VitalsV),
                    !.mindfulness = << Mindful(d, 10) >>,
                    !.body_battery = Some(50)]

\* What the watch sends mid-day: heart, its own recording of the night, and
\* sessions of no duration.
Midday(d) ==
    [Bare(d) EXCEPT !.heart = Some(HeartFull), !.sleep = << Watch(d) >>,
                    !.workouts = << Stretch(d) >>,
                    !.mindfulness = << Mindful(d, 0) >>]

\* The payloads a client sends for day d: one category each, and two mixed ones.
PayloadsFor(d) ==
    {Full(d), Midday(d)}
    \cup {[Bare(d) EXCEPT !.activity = Some(a)] : a \in {ActFull, ActZero}}
    \cup {[Bare(d) EXCEPT !.heart = Some(HeartRest)]}
    \cup {[Bare(d) EXCEPT !.body = Some(BodyW), !.vitals = Some(VitalsV),
                          !.body_battery = Some(50)]}
    \cup {[Bare(d) EXCEPT !.sleep = s] : s \in SleepLists(d)}
    \cup {[Bare(d) EXCEPT !.workouts = w] : w \in WorkoutLists(d)}
    \cup {[Bare(d) EXCEPT !.mood = m] : m \in MoodLists(d)}
    \cup {[Bare(d) EXCEPT !.mindfulness = << Mindful(d, 10) >>]}

Payloads == UNION {PayloadsFor(d) : d \in Days}

\* payload.model_dump_json(): the payload's fields under a JSON tag.
ModelDumpJson(p) == [json |-> p]

\* --------------------------------------------------- store_sync: statements

\* cursor.lastrowid of an INSERT into an AUTOINCREMENT table: one past the
\* largest rowid the table ever held.  SQLite draws it for an upsert too, also
\* when the upsert then takes its DO UPDATE branch.
NextId(db, t) == db.seq[t] + 1

Bump(db, t) == [db.seq EXCEPT ![t] = NextId(db, t)]

\* The mutant of InsertSyncLog: one row per device, replaced by each sync.
InsertSyncLogPerDevice(db, p) ==
    [db EXCEPT
       !.sync_log = {l \in @ : l.device_id # p.device_id} \cup
           {[id |-> NextId(db, "sync_log"), device_id |-> p.device_id,
             synced_at |-> IsoFormat(p.synced_at),
             period_from |-> IsoFormat(p.period_from),
             period_to |-> IsoFormat(p.period_to),
             payload_json |-> ModelDumpJson(p)]},
       !.seq = Bump(db, "sync_log")]

\* INSERT INTO sync_log (...) VALUES (...)
InsertSyncLog(db, p) ==
    [db EXCEPT
       !.sync_log = @ \cup
           {[id |-> NextId(db, "sync_log"), device_id |-> p.device_id,
             synced_at |-> IsoFormat(p.synced_at),
             period_from |-> IsoFormat(p.period_from),
             period_to |-> IsoFormat(p.period_to),
             payload_json |-> ModelDumpJson(p)]},
       !.seq = Bump(db, "sync_log")]

\* s.end.strftime("%Y-%m-%d") == date_str
DateSleeps(p) ==
    LET date_str == DateStr(p.period_to)
        OnDate(s) == DateStr(s.end) = date_str
    IN  SelectSeq(p.sleep, OnDate)

\* The mutant of LongestSleep: the first session of the date, whatever its length.
FirstSleep(ss) == ss[1]

\* max(date_sleeps, key=lambda s: s.total_duration_min): the first of the maximal.
LongestSleep(ss) ==
    ss[CHOOSE i \in 1 .. Len(ss) :
          /\ \A j \in 1 .. Len(ss) : ss[j].total_duration_min <= ss[i].total_duration_min
          /\ \A j \in 1 .. i - 1 : ss[j].total_duration_min < ss[i].total_duration_min]

\* sum(st.duration_min for st in s.stages if st.stage == name)
StageTotal(s, name) ==
    LET Is(st) == st.stage = name
    IN  SumSeq(Column(SelectSeq(s.stages, Is), "duration_min"))

\* sleep_total, deep_total, rem_total, core_total, awake_total
SleepTotals(p) ==
    IF DateSleeps(p) # << >>
    THEN LET longest_sleep == LongestSleep(DateSleeps(p))
         IN  [sleep |-> longest_sleep.total_duration_min,
              deep |-> StageTotal(longest_sleep, "deep"),
              rem |-> StageTotal(longest_sleep, "rem"),
              core |-> StageTotal(longest_sleep, "core"),
              awake |-> StageTotal(longest_sleep, "awake")]
    ELSE [sleep |-> 0, deep |-> 0, rem |-> 0, core |-> 0, awake |-> 0]

\* The mutant of MoodAvg: passed as `mood_avg or None`, like the derived totals.
MoodAvgOrNone(p) ==
    IF p.mood # << >>
    THEN OrNone(SumSeq(Column(p.mood, "valence")) \div Len(p.mood))
    ELSE None

\* sum(m.valence for m in payload.mood) / len(payload.mood), None for no mood.
MoodAvg(p) ==
    IF p.mood # << >>
    THEN Some(SumSeq(Column(p.mood, "valence")) \div Len(p.mood))
    ELSE None

\* sum(w.active_calories or 0 for w in payload.workouts)
WorkoutCalories(p) ==
    LET Cal(w) == IF w.active_calories = None THEN 0 ELSE w.active_calories[1]
    IN  SumSeq([i \in 1 .. Len(p.workouts) |-> Cal(p.workouts[i])])

WorkoutMinutes(p) ==
    SumSeq(Column(p.workouts, "duration_min"))

MindfulnessMin(p) ==
    SumSeq(Column(p.mindfulness, "duration_min"))

\* The parameter tuple of the daily_summary upsert: the `excluded` row.
Excluded(p) ==
    [date |-> DateStr(p.period_to),
     steps |-> FieldOf(p.activity, "steps"),
     distance_km |-> FieldOf(p.activity, "distance_km"),
     active_calories |-> FieldOf(p.activity, "active_calories"),
     exercise_minutes |-> FieldOf(p.activity, "exercise_minutes"),
     stand_hours |-> FieldOf(p.activity, "stand_hours"),
     flights_climbed |-> FieldOf(p.activity, "flights_climbed"),
     resting_hr |-> FieldOf(p.heart, "resting_hr"),
     avg_hr |-> FieldOf(p.heart, "avg_hr"),
     hrv_sdnn |-> FieldOf(p.heart, "hrv_sdnn"),
     sleep_duration_min |-> OrNone(SleepTotals(p).sleep),
     deep_sleep_min |-> OrNone(SleepTotals(p).deep),
     rem_sleep_min |-> OrNone(SleepTotals(p).rem),
     core_sleep_min |-> OrNone(SleepTotals(p).core),
     awake_min |-> OrNone(SleepTotals(p).awake),
     weight_kg |-> FieldOf(p.body, "weight_kg"),
     body_fat_pct |-> FieldOf(p.body, "body_fat_pct"),
     body_battery |-> p.body_battery,
     mood_avg_valence |-> MoodAvg(p),
     workout_count |-> OrNone(Len(p.workouts)),
     workout_minutes |-> OrNone(WorkoutMinutes(p)),
     workout_calories |-> OrNone(WorkoutCalories(p)),
     mindfulness_minutes |-> OrNone(MindfulnessMin(p)),
     blood_oxygen_pct |-> FieldOf(p.vitals, "blood_oxygen_pct"),
     respiratory_rate |-> FieldOf(p.vitals, "respiratory_rate")]

\* The mutant of MergeRow: the workout count of a sync is added to the stored one.
MergeRowAccumulate(r, ex) ==
    [c \in DOMAIN r |->
        IF c = "workout_count" /\ ex[c] # None /\ r[c] # None THEN Some(r[c][1] + ex[c][1])
        ELSE IF c \in DataCols THEN Coalesce(ex[c], r[c])
        ELSE r[c]]

\* The mutant of MergeRow: the row is replaced by the new one, as INSERT OR
\* REPLACE would.
MergeRowReplace(r, ex) ==
    [c \in DOMAIN r |-> IF c \in DataCols THEN ex[c] ELSE r[c]]

\* ON CONFLICT(date) DO UPDATE SET col = COALESCE(excluded.col, col), ...
MergeRow(r, ex) ==
    [c \in DOMAIN r |-> IF c \in DataCols THEN Coalesce(ex[c], r[c]) ELSE r[c]]

\* The row a fresh INSERT creates.
NewRow(id, ex) ==
    [c \in DOMAIN ex \cup {"id"} |-> IF c = "id" THEN id ELSE ex[c]]

\* The mutant of ConflictRows: the conflict target never matches.
ConflictRowsNone(rows, ex) == {}

\* The mutant of ConflictRows: the conflict target matches whatever the date.
ConflictRowsAny(rows, ex) == rows

\* The rows the upsert's conflict target ON CONFLICT(date) matches.
ConflictRows(rows, ex) == {r \in rows : r.date = ex.date}

\* INSERT INTO daily_summary (...) VALUES (...) ON CONFLICT(date) DO UPDATE SET ...
UpsertSummary(db, p) ==
    LET ex == Excluded(p)
        hit == ConflictRows(db.daily_summary, ex)
    IN  [db EXCEPT
           !.daily_summary =
               IF hit # {}
               THEN (@ \ hit) \cup {MergeRow(r, ex) : r \in hit}
               ELSE @ \cup {NewRow(NextId(db, "daily_summary"), ex)},
           !.seq = Bump(db, "daily_summary")]

\* The mutant of InsertWorkout: a workout already stored is not stored again.
InsertWorkoutDedup(db, w) ==
    IF \E r \in db.workouts :
          r.workout_type = w.workout_type /\ r.start_time = IsoFormat(w.start)
    THEN db
    ELSE [db EXCEPT
            !.workouts = @ \cup
                {[id |-> NextId(db, "workouts"), date |-> DateStr(w.start),
                  workout_type |-> w.workout_type, start_time |-> IsoFormat(w.start),
                  end_time |-> IsoFormat(w.end), duration_min |-> w.duration_min,
                  distance_km |-> w.distance_km, active_calories |-> w.active_calories,
                  avg_hr |-> w.avg_hr, max_hr |-> w.max_hr,
                  elevation_gain_m |-> w.elevation_gain_m]},
            !.seq = Bump(db, "workouts")]

\* INSERT INTO workouts (...): dated by the workout's own start.
InsertWorkout(db, w) ==
    [db EXCEPT
       !.workouts = @ \cup
           {[id |-> NextId(db, "workouts"), date |-> DateStr(w.start),
             workout_type |-> w.workout_type, start_time |-> IsoFormat(w.start),
             end_time |-> IsoFormat(w.end), duration_min |-> w.duration_min,
             distance_km |-> w.distance_km, active_calories |-> w.active_calories,
             avg_hr |-> w.avg_hr, max_hr |-> w.max_hr,
             elevation_gain_m |-> w.elevation_gain_m]},
       !.seq = Bump(db, "workouts")]

\* INSERT INTO mood_entries (...): dated by the entry's timestamp.
InsertMood(db, m) ==
    [db EXCEPT
       !.mood_entries = @ \cup
           {[id |-> NextId(db, "mood_entries"), date |-> DateStr(m.timestamp),
             kind |-> m.kind, timestamp |-> IsoFormat(m.timestamp),
             valence |-> m.valence, labels |-> m.labels,
             associations |-> m.associations]},
       !.seq = Bump(db, "mood_entries")]

\* The mutant of SleepKeyRows: the upsert never finds the existing row.
SleepKeyRowsNone(rows, date, start_time) == {}

\* The rows ON CONFLICT(date, start_time) matches.
SleepKeyRows(rows, date, start_time) ==
    {r \in rows : r.date = date /\ r.start_time = start_time}

\* The mutant of UpsertSleep: the session is filed under the date it starts on.
UpsertSleepByStart(db, s) ==
    LET s_date == DateStr(s.start)
        hit == SleepKeyRows(db.sleep_sessions, s_date, IsoFormat(s.start))
        Upd(r) == [r EXCEPT !.end_time = IsoFormat(s.end),
                            !.total_duration_min = s.total_duration_min,
                            !.in_bed_duration_min = s.in_bed_duration_min,
                            !.stages_json = s.stages]
    IN  [db EXCEPT
           !.sleep_sessions =
               IF hit # {}
               THEN (@ \ hit) \cup {Upd(r) : r \in hit}
               ELSE @ \cup
                    {[id |-> NextId(db, "sleep_sessions"), date |-> s_date,
                      start_time |-> IsoFormat(s.start), end_time |-> IsoFormat(s.end),
                      total_duration_min |-> s.total_duration_min,
                      in_bed_duration_min |-> s.in_bed_duration_min,
                      stages_json |-> s.stages]},
           !.seq = Bump(db, "sleep_sessions")]

\* INSERT INTO sleep_sessions (...) ON CONFLICT(date, start_time) DO UPDATE SET
\* end_time, total_duration_min, in_bed_duration_min, stages_json: dated by the end.
UpsertSleep(db, s) ==
    LET s_date == DateStr(s.end)
        hit == SleepKeyRows(db.sleep_sessions, s_date, IsoFormat(s.start))
        Upd(r) == [r EXCEPT !.end_time = IsoFormat(s.end),
                            !.total_duration_min = s.total_duration_min,
                            !.in_bed_duration_min = s.in_bed_duration_min,
                            !.stages_json = s.stages]
    IN  [db EXCEPT
           !.sleep_sessions =
               IF hit # {}
               THEN (@ \ hit) \cup {Upd(r) : r \in hit}
               ELSE @ \cup
                    {[id |-> NextId(db, "sleep_sessions"), date |-> s_date,
                      start_time |-> IsoFormat(s.start), end_time |-> IsoFormat(s.end),
                      total_duration_min |-> s.total_duration_min,
                      in_bed_duration_min |-> s.in_bed_duration_min,
                      stages_json |-> s.stages]},
           !.seq = Bump(db, "sleep_sessions")]

\* The mutant of InitDbResult: of the rows that share (date, start_time) the
\* one stored last is kept.
InitDbKeepsLast(db) ==
    [db EXCEPT
       !.sleep_sessions =
           {r \in @ : \A o \in @ :
                (o.date = r.date /\ o.start_time = r.start_time) => r.id >= o.id},
       !.sleep_unique = TRUE]

\* init_db: the tables exist afterwards; sleep_sessions keeps, of the rows that
\* share (date, start_time), the one of least id, and gets its unique index.
InitDbResult(db) ==
    [db EXCEPT
       !.sleep_sessions =
           {r \in @ : \A o \in @ :
                (o.date = r.date /\ o.start_time = r.start_time) => r.id <= o.id},
       !.sleep_unique = TRUE]

\* ------------------------------------------------------------ the machine

VARIABLES
    disk,      \* the committed content of the database file
    txn,       \* what the open connection of store_sync sees: disk plus its own writes
    pc,        \* where the server is: "boot", "idle", or a statement of store_sync
    req,       \* the payload being stored, None when no sync is in progress
    idx,       \* position in the list the current loop of store_sync walks
    sync_id,   \* store_sync's local sync_id (0 before the sync_log insert)
    resp,      \* the last answer of the sync endpoint
    answer,    \* the last answer of a query endpoint
    conns,     \* concurrent store_sync calls: each one's connection and position
    lock,      \* the connection holding the file's write lock, 0 for none
    meals,     \* the committed meal_entries and meal_nutrients tables
    nut,       \* the nutrition analyze request in progress and its last answer
    reply,     \* the last answer of a meal endpoint
    api        \* a request as the endpoints' authentication sees it

vars == << disk, txn, pc, req, idx, sync_id, resp, answer, conns, lock, meals, nut, reply, api >>

\* What the sync and query handlers of one request at a time leave alone.
more == << conns, lock, meals, nut, reply, api >>

Procs == {1, 2}

\* A store_sync call that has not been made.
NoConn == [pc |-> "idle", req |-> None, txn |-> None, idx |-> 0, sync_id |-> 0, status |-> "none"]

\* The nutrition tables as init_db creates them.
EmptyMeals ==
    [meal_entries |-> {}, meal_nutrients |-> {},
     seq |-> [meal_entries |-> 0, meal_nutrients |-> 0]]

\* No analyze request yet: the event loop is free, the gateway was not called.
NoAnalysis ==
    [pc |-> "idle", loop |-> "free", text |-> None, now |-> 0, calls |-> 0, clock |-> 0,
     raw |-> None, data |-> None, args |-> None, txn |-> None, meal_id |-> None,
     status |-> "none", log_len |-> 0]

NoReply == [op |-> "none", meal_id |-> 0, status |-> 0, body |-> None]

NoApi ==
    [pc |-> "idle", endpoint |-> "none", key |-> None, valid |-> TRUE, status |-> 0,
     connects |-> 0, gateway |-> 0, served |-> 0]

MoreInit ==
    /\ conns = [i \in Procs |-> NoConn]
    /\ lock = 0
    /\ meals = EmptyMeals
    /\ nut = NoAnalysis
    /\ reply = NoReply
    /\ api = NoApi

NoResp == [status |-> "none", sync_id |-> 0]

NoAnswer == [kind |-> "none", days |-> 0, today |-> 0, rows |-> << >>]

\* A database file written by an earlier version of the server, whose
\* sleep_sessions had no UNIQUE(date, start_time): it holds one night twice.
LegacyDb ==
    [EmptyDb EXCEPT
       !.sleep_sessions =
           {[id |-> 1, date |-> 1, start_time |-> << 0, 22 >>, end_time |-> << 1, 6 >>,
             total_duration_min |-> 400, in_bed_duration_min |-> None,
             stages_json |-> << >>],
            [id |-> 2, date |-> 1, start_time |-> << 0, 22 >>, end_time |-> << 1, 5 >>,
             total_duration_min |-> 380, in_bed_duration_min |-> None,
             stages_json |-> << >>],
            [id |-> 3, date |-> 1, start_time |-> << 1, 13 >>, end_time |-> << 1, 14 >>,
             total_duration_min |-> 60, in_bed_duration_min |-> None,
             stages_json |-> << >>]},
       !.seq = [@ EXCEPT !["sleep_sessions"] = 3],
       !.sleep_unique = FALSE]

Init ==
    /\ disk \in {EmptyDb, LegacyDb}
    /\ txn = disk
    /\ pc = "boot"
    /\ req = None
    /\ idx = 0
    /\ sync_id = 0
    /\ resp = NoResp
    /\ answer = NoAnswer
    /\ MoreInit

\* lifespan: init_db runs when the server starts, and again on every restart.
InitDb ==
    /\ pc \in {"boot", "idle"}
    /\ disk' = InitDbResult(disk)
    /\ txn' = disk'
    /\ pc' = "idle"
    /\ UNCHANGED << req, idx, sync_id, resp, answer >>
    /\ UNCHANGED more

\* The statement store_sync runs after the daily_summary upsert or after a loop
\* has walked its list: the next non-empty loop, else the commit.
AfterLoop(p, done) ==
    IF done \in {"upsert_summary"} /\ p.workouts # << >> THEN "workouts"
    ELSE IF done \in {"upsert_summary", "workouts"} /\ p.mood # << >> THEN "mood"
    ELSE IF done \in {"upsert_summary", "workouts", "mood"} /\ p.sleep # << >>
         THEN "sleep"
    ELSE "commit"

\* POST /api/health/sync with a valid key and body: store_sync opens its connection.
Receive(p) ==
    /\ pc = "idle"
    /\ Cardinality(disk.sync_log) < MaxSyncs
    /\ req' = Some(p)
    /\ txn' = disk
    /\ pc' = "insert_log"
    /\ idx' = 0
    /\ sync_id' = 0
    /\ resp' = NoResp
    /\ UNCHANGED << disk, answer >>
    /\ UNCHANGED more

StmtInsertSyncLog ==
    /\ pc = "insert_log"
    /\ txn' = InsertSyncLog(txn, req[1])
    /\ sync_id' = NextId(txn, "sync_log")
    /\ pc' = "upsert_summary"
    /\ UNCHANGED << disk, req, idx, resp, answer >>
    /\ UNCHANGED more

StmtUpsertSummary ==
    /\ pc = "upsert_summary"
    /\ txn' = UpsertSummary(txn, req[1])
    /\ pc' = AfterLoop(req[1], "upsert_summary")
    /\ idx' = 1
    /\ UNCHANGED << disk, req, sync_id, resp, answer >>
    /\ UNCHANGED more

\* One turn of a `for` loop over list: on to its next element, or past the loop.
LoopStep(name, list) ==
    /\ IF idx < Len(list)
       THEN idx' = idx + 1 /\ pc' = name
       ELSE idx' = 1 /\ pc' = AfterLoop(req[1], name)
    /\ UNCHANGED << disk, req, sync_id, resp, answer >>
    /\ UNCHANGED more

StmtInsertWorkout ==
    /\ pc = "workouts"
    /\ txn' = InsertWorkout(txn, req[1].workouts[idx])
    /\ LoopStep("workouts", req[1].workouts)

StmtInsertMood ==
    /\ pc = "mood"
    /\ txn' = InsertMood(txn, req[1].mood[idx])
    /\ LoopStep("mood", req[1].mood)

\* Without the unique index the ON CONFLICT clause is an error (see Fail).
StmtUpsertSleep ==
    /\ pc = "sleep"
    /\ txn.sleep_unique
    /\ txn' = UpsertSleep(txn, req[1].sleep[idx])
    /\ LoopStep("sleep", req[1].sleep)

\* The mutant of CommitTxn: the commit is lost.
CommitNothing(db, t) == db

\* await db.commit(): the connection's writes become the file's content.
CommitTxn(db, t) == t

StmtCommit ==
    /\ pc = "commit"
    /\ disk' = CommitTxn(disk, txn)
    /\ pc' = "return"
    /\ UNCHANGED << txn, req, idx, sync_id, resp, answer >>
    /\ UNCHANGED more

\* return {"status": "ok", "sync_id": sync_id}
RespondOk ==
    /\ pc = "return"
    /\ resp' = [status |-> "ok", sync_id |-> sync_id]
    /\ pc' = "idle"
    /\ req' = None
    /\ txn' = disk
    /\ idx' = 0
    /\ sync_id' = 0
    /\ UNCHANGED << disk, answer >>
    /\ UNCHANGED more

\* The mutant of Rollback: every statement was committed as it ran.
RollbackKeepsWrites(db, t) == t

\* Leaving `async with aiosqlite.connect(...)` by an exception closes the
\* connection without a commit: SQLite rolls the open transaction back.
Rollback(db, t) == db

\* A statement or the commit raises (disk full, I/O error, database locked):
\* the exception leaves store_sync and the endpoint answers 500.
Fail ==
    /\ pc \in {"insert_log", "upsert_summary", "workouts", "mood", "sleep", "commit"}
    /\ disk' = Rollback(disk, txn)
    /\ txn' = disk'
    /\ resp' = [status |-> "error", sync_id |-> 0]
    /\ pc' = "idle"
    /\ req' = None
    /\ idx' = 0
    /\ sync_id' = 0
    /\ UNCHANGED answer
    /\ UNCHANGED more

Next ==
    \/ InitDb
    \/ \E p \in Payloads : Receive(p)
    \/ StmtInsertSyncLog
    \/ StmtUpsertSummary
    \/ StmtInsertWorkout
    \/ StmtInsertMood
    \/ StmtUpsertSleep
    \/ StmtCommit
    \/ RespondOk
    \/ Fail

Spec == Init /\ [][Next]_vars

\* The three loops of store_sync, each run over its whole list.
RECURSIVE StoreWorkouts(_, _)
StoreWorkouts(db, list) ==
    IF list = << >> THEN db ELSE StoreWorkouts(InsertWorkout(db, Head(list)), Tail(list))

RECURSIVE StoreMood(_, _)
StoreMood(db, list) ==
    IF list = << >> THEN db ELSE StoreMood(InsertMood(db, Head(list)), Tail(list))

RECURSIVE StoreSleep(_, _)
StoreSleep(db, list) ==
    IF list = << >> THEN db ELSE StoreSleep(UpsertSleep(db, Head(list)), Tail(list))

\* store_sync run to its commit on db: every statement in order.
StoreSync(db, p) ==
    StoreSleep(
        StoreMood(
            StoreWorkouts(UpsertSummary(InsertSyncLog(db, p), p), p.workouts),
            p.mood),
        p.sleep)

\* ---------------------------------------------------------- windowed reads

\* Largest day count a query is given (the endpoints accept 1..90).
MaxWindow == 2

\* The dates date('now') may yield: any modelled day, or the day after.
Todays == 1 .. MaxDay + 1

\* Text comparison of two isoformat() strings.
IsoLess(a, b) == a[1] < b[1] \/ (a[1] = b[1] /\ a[2] < b[2])

\* ORDER BY key DESC over K, a set of [key, row]: every order SQLite may return
\* (rows of equal key come in either order).
RECURSIVE OrderByDesc(_)
OrderByDesc(K) ==
    IF K = {} THEN {<< >>}
    ELSE UNION {{<< x.row >> \o t : t \in OrderByDesc(K \ {x})} :
                  x \in {y \in K : \A z \in K : ~IsoLess(y.key, z.key)}}

\* LIMIT n
Limit(s, n) == SubSeq(s, 1, IF n < Len(s) THEN n ELSE Len(s))

\* date('now', '-N days')
DateNowMinus(today, days) == today - days

\* SELECT * FROM daily_summary ORDER BY date DESC LIMIT ?
GetDailySummaries(db, days) ==
    {Limit(s, days) :
        s \in OrderByDesc({[key |-> << r.date, 0 >>, row |-> r] : r \in db.daily_summary})}

\* SELECT * FROM workouts WHERE date >= date('now', ?) ORDER BY start_time DESC
GetWorkouts(db, days, today) ==
    OrderByDesc({[key |-> r.start_time, row |-> r] :
                   r \in {w \in db.workouts : w.date >= DateNowMinus(today, days)}})

\* SELECT * FROM mood_entries WHERE date >= date('now', ?) ORDER BY timestamp DESC
GetMoodEntries(db, days, today) ==
    OrderByDesc({[key |-> r.timestamp, row |-> r] :
                   r \in {m \in db.mood_entries : m.date >= DateNowMinus(today, days)}})

\* SELECT * FROM sleep_sessions WHERE date >= date('now', ?) ORDER BY start_time DESC
GetSleepSessions(db, days, today) ==
    OrderByDesc({[key |-> r.start_time, row |-> r] :
                   r \in {x \in db.sleep_sessions : x.date >= DateNowMinus(today, days)}})

\* The payloads of the read-side specification: they fill every table, on the
\* period_to date and the day before.
ReadPayloads ==
    UNION {{Full(d), [Bare(d) EXCEPT !.heart = Some(HeartRest)],
            [Bare(d) EXCEPT !.sleep = << Night(d - 1), Watch(d - 1) >>]} : d \in Days}

InitRead ==
    /\ disk = EmptyDb
    /\ txn = disk
    /\ pc = "idle"
    /\ req = None
    /\ idx = 0
    /\ sync_id = 0
    /\ resp = NoResp
    /\ answer = NoAnswer
    /\ MoreInit

\* A sync from its request to its answer, as the readers see it: committed whole.
Synced(p) ==
    /\ pc = "idle"
    /\ Cardinality(disk.sync_log) < MaxSyncs
    /\ disk' = CommitTxn(disk, StoreSync(disk, p))
    /\ txn' = disk'
    /\ resp' = [status |-> "ok", sync_id |-> NextId(disk, "sync_log")]
    /\ answer' = NoAnswer
    /\ UNCHANGED << pc, req, idx, sync_id >>
    /\ UNCHANGED more

Answer(kind, days, today, rows) ==
    /\ pc = "idle"
    /\ answer' = [kind |-> kind, days |-> days, today |-> today, rows |-> rows]
    /\ UNCHANGED << disk, txn, pc, req, idx, sync_id, resp >>
    /\ UNCHANGED more

\* GET /api/health/summary?days=N
ReadSummaries ==
    \E days \in 1 .. MaxWindow, today \in Todays :
       \E rows \in GetDailySummaries(disk, days) :
          Answer("summary", days, today, rows)

\* GET /api/health/workouts?days=N
ReadWorkouts ==
    \E days \in 1 .. MaxWindow, today \in Todays :
       \E rows \in GetWorkouts(disk, days, today) :
          Answer("workouts", days, today, rows)

\* GET /api/health/mood?days=N
ReadMood ==
    \E days \in 1 .. MaxWindow, today \in Todays :
       \E rows \in GetMoodEntries(disk, days, today) :
          Answer("mood", days, today, rows)

\* GET /api/health/sleep?days=N
ReadSleep ==
    \E days \in 1 .. MaxWindow, today \in Todays :
       \E rows \in GetSleepSessions(disk, days, today) :
          Answer("sleep", days, today, rows)

\* The mutant of GetLatestSummary: the row of the smallest date.
GetOldestSummary(db) ==
    {IF rows = << >> THEN None ELSE Some(rows[Len(rows)]) :
        rows \in GetDailySummaries(db, Cardinality(db.daily_summary))}

\* rows = await get_daily_summaries(1); return rows[0] if rows else None
GetLatestSummary(db) ==
    {IF rows = << >> THEN None ELSE Some(rows[1]) : rows \in GetDailySummaries(db, 1)}

\* GET /api/health/latest: {"status": "no_data"} for no summary, else the row.
ReadLatest ==
    \E today \in Todays :
       \E summary \in GetLatestSummary(disk) :
          Answer(IF summary = None THEN "no_data" ELSE "latest", 0, today, summary)

NextRead ==
    \/ \E p \in ReadPayloads : Synced(p)
    \/ ReadSummaries
    \/ ReadWorkouts
    \/ ReadMood
    \/ ReadSleep
    \/ ReadLatest

\* The server after init_db on fresh storage, as its readers see it.
SpecRead == InitRead /\ [][NextRead]_vars

\* The server started on fresh storage.
InitFresh ==
    /\ disk = EmptyDb
    /\ txn = disk
    /\ pc = "boot"
    /\ req = None
    /\ idx = 0
    /\ sync_id = 0
    /\ resp = NoResp
    /\ answer = NoAnswer
    /\ MoreInit

SpecFresh == InitFresh /\ [][Next]_vars

\* ------------------------------------------------------- concurrent syncs

\* The payloads two concurrent syncs carry: for each day one with every
\* category, one with heart alone and one with the sleep of the day before.
ConcPayloads == ReadPayloads

\* The mutant of WriteLockFree: writers do not exclude each other.
WriteLockFreeAlways(l, i) == TRUE

\* The first INSERT of a connection begins a transaction and takes the file's
\* write lock, which SQLite grants to one connection at a time.
WriteLockFree(l, i) == l \in {0, i}

InitConc ==
    /\ disk = InitDbResult(EmptyDb)
    /\ txn = disk
    /\ pc = "idle"
    /\ req = None
    /\ idx = 0
    /\ sync_id = 0
    /\ resp = NoResp
    /\ answer = NoAnswer
    /\ MoreInit

ConcFrame == UNCHANGED << txn, pc, req, idx, sync_id, resp, answer, meals, nut, reply, api >>

\* POST /api/health/sync while another sync may be in progress: store_sync
\* opens a connection of its own.
ConcReceive(i, p) ==
    /\ conns[i].pc = "idle"
    /\ Cardinality(disk.sync_log) + Cardinality({j \in Procs : conns[j].pc # "idle"}) < MaxSyncs
    /\ conns' = [conns EXCEPT ![i] = [NoConn EXCEPT !.pc = "insert_log", !.req = Some(p)]]
    /\ UNCHANGED << disk, lock >>
    /\ ConcFrame

\* The sync_log INSERT: it waits until the write lock is free, then sees the
\* file as committed at that moment.
ConcInsertSyncLog(i) ==
    /\ conns[i].pc = "insert_log"
    /\ WriteLockFree(lock, i)
    /\ lock' = i
    /\ conns' = [conns EXCEPT ![i].txn = Some(InsertSyncLog(disk, conns[i].req[1])),
                              ![i].sync_id = NextId(disk, "sync_log"),
                              ![i].pc = "upsert_summary"]
    /\ UNCHANGED disk
    /\ ConcFrame

\* The wait for the write lock ends after the connection's busy timeout:
\* "database is locked" leaves store_sync.
ConcBusy(i) ==
    /\ conns[i].pc = "insert_log"
    /\ ~WriteLockFree(lock, i)
    /\ conns' = [conns EXCEPT ![i] = [NoConn EXCEPT !.status = "error"]]
    /\ UNCHANGED << disk, lock >>
    /\ ConcFrame

ConcUpsertSummary(i) ==
    /\ conns[i].pc = "upsert_summary"
    /\ conns' = [conns EXCEPT ![i].txn = Some(UpsertSummary(conns[i].txn[1], conns[i].req[1])),
                              ![i].pc = AfterLoop(conns[i].req[1], "upsert_summary"),
                              ![i].idx = 1]
    /\ UNCHANGED << disk, lock >>
    /\ ConcFrame

\* One turn of a loop of store_sync on connection i, leaving it with view t.
ConcLoopStep(i, name, list, t) ==
    /\ conns' = [conns EXCEPT ![i].txn = Some(t),
                              ![i].idx = IF conns[i].idx < Len(list) THEN conns[i].idx + 1 ELSE 1,
                              ![i].pc = IF conns[i].idx < Len(list) THEN name
                                        ELSE AfterLoop(conns[i].req[1], name)]
    /\ UNCHANGED << disk, lock >>
    /\ ConcFrame

ConcInsertWorkout(i) ==
    /\ conns[i].pc = "workouts"
    /\ ConcLoopStep(i, "workouts", conns[i].req[1].workouts,
                    InsertWorkout(conns[i].txn[1], conns[i].req[1].workouts[conns[i].idx]))

ConcInsertMood(i) ==
    /\ conns[i].pc = "mood"
    /\ ConcLoopStep(i, "mood", conns[i].req[1].mood,
                    InsertMood(conns[i].txn[1], conns[i].req[1].mood[conns[i].idx]))

ConcUpsertSleep(i) ==
    /\ conns[i].pc = "sleep"
    /\ ConcLoopStep(i, "sleep", conns[i].req[1].sleep,
                    UpsertSleep(conns[i].txn[1], conns[i].req[1].sleep[conns[i].idx]))

\* await db.commit() on connection i: its view becomes the file, the lock is free.
ConcCommit(i) ==
    /\ conns[i].pc = "commit"
    /\ disk' = CommitTxn(disk, conns[i].txn[1])
    /\ lock' = 0
    /\ conns' = [conns EXCEPT ![i].pc = "return"]
    /\ ConcFrame

\* return sync_id; the endpoint answers ok (req stays as the request answered).
ConcReturn(i) ==
    /\ conns[i].pc = "return"
    /\ conns' = [conns EXCEPT ![i] = [NoConn EXCEPT !.status = "ok", !.req = conns[i].req,
                                                    !.sync_id = conns[i].sync_id]]
    /\ UNCHANGED << disk, lock >>
    /\ ConcFrame

\* A statement or the commit of connection i raises: its transaction is rolled
\* back and its lock released.
ConcFail(i) ==
    /\ conns[i].pc \in {"upsert_summary", "workouts", "mood", "sleep", "commit"}
    /\ disk' = Rollback(disk, conns[i].txn[1])
    /\ lock' = 0
    /\ conns' = [conns EXCEPT ![i] = [NoConn EXCEPT !.status = "error"]]
    /\ ConcFrame

NextConc ==
    \/ \E i \in Procs, p \in ConcPayloads : ConcReceive(i, p)
    \/ \E i \in Procs : ConcInsertSyncLog(i)
    \/ \E i \in Procs : ConcBusy(i)
    \/ \E i \in Procs : ConcUpsertSummary(i)
    \/ \E i \in Procs : ConcInsertWorkout(i)
    \/ \E i \in Procs : ConcInsertMood(i)
    \/ \E i \in Procs : ConcUpsertSleep(i)
    \/ \E i \in Procs : ConcCommit(i)
    \/ \E i \in Procs : ConcReturn(i)
    \/ \E i \in Procs : ConcFail(i)

\* Two sync requests served concurrently by the started server.
SpecConc == InitConc /\ [][NextConc]_vars

\* ------------------------------------------------------------ _extract_json

\* Longest response text, in tokens.
MaxText == 5

\* A response text is a sequence of tokens: F is a ``` fence, j the word
\* json, { and } the braces of the one JSON object {} (whatever it holds), x
\* any other prose, n white space.
Alphabet == {"F", "j", "{", "}", "x", "n"}

Texts == UNION {[1 .. n -> Alphabet] : n \in 0 .. MaxText}

RECURSIVE LStrip(_)
LStrip(t) == IF t # << >> /\ Head(t) = "n" THEN LStrip(Tail(t)) ELSE t

RECURSIVE RStrip(_)
RStrip(t) ==
    IF t # << >> /\ t[Len(t)] = "n" THEN RStrip(SubSeq(t, 1, Len(t) - 1)) ELSE t

\* str.strip()
Strip(t) == RStrip(LStrip(t))

NotSpace(c) == c # "n"

\* json.loads(t): the text parses when, white space aside, it is the object.
JsonLoads(t) == SelectSeq(t, NotSpace) = << "{", "}" >>

\* The positions at which pat occurs in t.
Occurs(t, pat) ==
    {i \in 1 .. Len(t) - Len(pat) + 1 : SubSeq(t, i, i + Len(pat) - 1) = pat}

SetMin(S) == CHOOSE m \in S : \A x \in S : m <= x

\* `pat in t`
Contains(t, pat) == Occurs(t, pat) # {}

\* t.index(pat, start): the first occurrence at or after start; 0 stands for
\* the ValueError "substring not found".
Index(t, pat, start) ==
    LET at == {i \in Occurs(t, pat) : i >= start}
    IN  IF at = {} THEN 0 ELSE SetMin(at)

ParseOk(v) == [kind |-> "ok", value |-> v, error |-> "none"]

ParseFail(e) == [kind |-> "raise", value |-> << >>, error |-> e]

\* The last resort: the text from the first { to the last }.
TryBraces(t) ==
    LET brace_start == Index(t, << "{" >>, 1)
        brace_end == IF Contains(t, << "}" >>) THEN SetMax(Occurs(t, << "}" >>)) ELSE 0
    IN  IF brace_start # 0 /\ brace_end # 0
           /\ JsonLoads(SubSeq(t, brace_start, brace_end))
        THEN ParseOk(SubSeq(t, brace_start, brace_end))
        ELSE ParseFail("Could not extract JSON from agent response")

\* `if "```" in text`: the text between the first fence and the next one; the
\* search for the closing fence is outside the try block.
TryFence(t) ==
    IF Contains(t, << "F" >>)
    THEN LET start == Index(t, << "F" >>, 1) + 1
             end == Index(t, << "F" >>, start)
         IN  IF end = 0 THEN ParseFail("substring not found")
             ELSE IF JsonLoads(Strip(SubSeq(t, start, end - 1)))
                  THEN ParseOk(Strip(SubSeq(t, start, end - 1)))
                  ELSE TryBraces(t)
    ELSE TryBraces(t)

\* `if "```json" in text`: the text between that fence and the next one.
TryJsonFence(t) ==
    IF Contains(t, << "F", "j" >>)
    THEN LET start == Index(t, << "F", "j" >>, 1) + 2
             end == Index(t, << "F" >>, start)
         IN  IF end = 0 THEN ParseFail("substring not found")
             ELSE IF JsonLoads(Strip(SubSeq(t, start, end - 1)))
                  THEN ParseOk(Strip(SubSeq(t, start, end - 1)))
                  ELSE TryFence(t)
    ELSE TryFence(t)

\* _extract_json(text)
ExtractJson(text) ==
    LET t == Strip(text)
    IN  IF JsonLoads(t) THEN ParseOk(t) ELSE TryJsonFence(t)

\* A JSON value as the gateway's object holds it under a key: a number, a
\* string (n tells strings apart), null, or no such key.
Num(n) == [t |-> "num", n |-> n]

Str(n) == [t |-> "str", n |-> n]

Null == [t |-> "null", n |-> 0]

Missing == [t |-> "missing", n |-> 0]

\* d.get(key, default)
GetOr(v, default) == IF v.t = "missing" THEN default ELSE v

\* float(v) raises for a string that is no number (ValueError) and for None
\* (TypeError).
FloatOk(v) == v.t = "num"

Egg ==
    [name |-> Str(3), portion |-> Str(4), calories |-> Num(140), protein_g |-> Num(12),
     carbs_g |-> Num(1), fat_g |-> Num(10)]

Toast ==
    [name |-> Str(5), portion |-> Str(6), calories |-> Num(60), protein_g |-> Num(0),
     carbs_g |-> Num(11), fat_g |-> Num(0)]

Sample(identifier, value) == [identifier |-> identifier, value |-> value]

\* The object the analysis prompt asks for.
GoodMeal ==
    [description |-> Str(0),
     food_items |-> << Egg, Toast >>,
     totals |-> [calories |-> Num(200), protein_g |-> Num(12), carbs_g |-> Num(12),
                 fat_g |-> Num(10)],
     healthkit_samples |->
         [shape |-> "list",
          items |-> << Sample("dietaryEnergyConsumed", Num(200)),
                       Sample("dietaryProtein", Num(12)),
                       Sample("dietaryCaffeine", Num(5)) >>]]

\* An object with none of the keys: {}.
NoKeys ==
    [description |-> Missing, food_items |-> << >>,
     totals |-> [calories |-> Missing, protein_g |-> Missing, carbs_g |-> Missing,
                 fat_g |-> Missing],
     healthkit_samples |-> [shape |-> "missing", items |-> << >>]]

\* "calories": "about 200"
WordTotal == [GoodMeal EXCEPT !.totals.calories = Str(7)]

\* "healthkit_samples": null
NullSamples == [GoodMeal EXCEPT !.healthkit_samples = [shape |-> "null", items |-> << >>]]

\* "healthkit_samples": {}
DictSamples == [GoodMeal EXCEPT !.healthkit_samples = [shape |-> "dict", items |-> << >>]]

\* "description": null
NullDescription == [GoodMeal EXCEPT !.description = Null]

InitJson ==
    /\ disk = InitDbResult(EmptyDb)
    /\ txn = disk
    /\ pc = "idle"
    /\ req = None
    /\ idx = 0
    /\ sync_id = 0
    /\ resp = NoResp
    /\ answer = NoAnswer
    /\ conns = [i \in Procs |-> NoConn]
    /\ lock = 0
    /\ meals = EmptyMeals
    /\ reply = NoReply
    /\ api = NoApi
    /\ \E text \in Texts :
          nut = [NoAnalysis EXCEPT !.pc = "parse", !.raw = Some([text |-> text, obj |-> GoodMeal])]

\* data = _extract_json(raw_response)
Extract ==
    /\ nut.pc = "parse"
    /\ nut' = [nut EXCEPT !.pc = "parsed", !.data = Some(ExtractJson(nut.raw[1].text))]
    /\ UNCHANGED << disk, txn, pc, req, idx, sync_id, resp, answer, conns, lock, meals, reply, api >>

NextJson == Extract

\* _extract_json applied to every response text of up to MaxText tokens.
SpecJson == InitJson /\ [][NextJson]_vars

\* ------------------------------------------------------- nutrition analyze

\* Ticks of the clock after which subprocess.run's timeout expires.
MaxWait == 2

\* Meals stored in one run.
MaxMeals == 2

\* The connection store_meal_entry opens, as the write lock names it.
NutConn == 3

\* hk_name_map: the HealthKit identifiers that have a nutrient name and unit.
HkNameMap(identifier) ==
    CASE identifier = "dietaryEnergyConsumed" -> << "Energy", "kcal" >>
      [] identifier = "dietaryProtein" -> << "Protein", "g" >>
      [] OTHER -> << >>

Macros == {"calories", "protein_g", "carbs_g", "fat_g"}

\* all_nutrients: one entry per sample whose identifier is in hk_name_map.
RECURSIVE AllNutrients(_)
AllNutrients(items) ==
    IF items = << >> THEN << >>
    ELSE LET sample == Head(items)
             hit == HkNameMap(sample.identifier)
         IN  (IF hit # << >>
              THEN << [name |-> hit[1], amount |-> GetOr(sample.value, Num(0)).n,
                       unit |-> hit[2]] >>
              ELSE << >>) \o AllNutrients(Tail(items))

\* Every float(...) and every loop between _extract_json and store_meal_entry
\* goes through: the macros of each food item and of the totals are numbers,
\* healthkit_samples can be iterated and its mapped samples' values are numbers.
BuildOk(obj) ==
    /\ \A i \in 1 .. Len(obj.food_items), f \in Macros :
          FloatOk(GetOr(obj.food_items[i][f], Num(0)))
    /\ \A f \in Macros : FloatOk(GetOr(obj.totals[f], Num(0)))
    /\ obj.healthkit_samples.shape # "null"
    /\ \A i \in 1 .. Len(obj.healthkit_samples.items) :
          HkNameMap(obj.healthkit_samples.items[i].identifier) # << >> =>
             FloatOk(GetOr(obj.healthkit_samples.items[i].value, Num(0)))

\* The arguments analyze_nutrition passes to store_meal_entry.
BuildArgs(raw, text, now) ==
    LET obj == raw.obj
        description == GetOr(obj.description, text)
    IN  [date |-> now, timestamp |-> << now, 12 >>,
         description |-> IF description.t = "null" THEN None ELSE Some(description),
         analysis_json |-> Some(raw),
         total_calories |-> Some(GetOr(obj.totals.calories, Num(0)).n),
         total_protein_g |-> Some(GetOr(obj.totals.protein_g, Num(0)).n),
         total_carbs_g |-> Some(GetOr(obj.totals.carbs_g, Num(0)).n),
         total_fat_g |-> Some(GetOr(obj.totals.fat_g, Num(0)).n),
         nutrients |-> AllNutrients(obj.healthkit_samples.items),
         food_items_json |-> Some(obj.food_items)]

\* INSERT INTO meal_nutrients (meal_entry_id, nutrient_name, amount, unit), for
\* each nutrient of the list.
RECURSIVE InsertNutrients(_, _, _)
InsertNutrients(m, meal_id, ns) ==
    IF ns = << >> THEN m
    ELSE InsertNutrients(
             [m EXCEPT
                !.meal_nutrients = @ \cup
                    {[id |-> NextId(m, "meal_nutrients"), meal_entry_id |-> meal_id,
                      nutrient_name |-> Head(ns).name, amount |-> Head(ns).amount,
                      unit |-> Head(ns).unit]},
                !.seq = Bump(m, "meal_nutrients")],
             meal_id, Tail(ns))

\* description TEXT NOT NULL: the meal_entries INSERT raises for a None.
MealInsertOk(a) == a.description # None

\* store_meal_entry up to its commit: the meal row, then its nutrient rows.
StoreMealEntry(m, a) ==
    LET meal_id == NextId(m, "meal_entries")
    IN  InsertNutrients(
            [m EXCEPT
               !.meal_entries = @ \cup
                   {[id |-> meal_id, date |-> a.date, timestamp |-> a.timestamp,
                     description |-> a.description, image_path |-> None,
                     analysis_json |-> a.analysis_json,
                     total_calories |-> a.total_calories,
                     total_protein_g |-> a.total_protein_g,
                     total_carbs_g |-> a.total_carbs_g, total_fat_g |-> a.total_fat_g,
                     food_items_json |-> a.food_items_json]},
               !.seq = Bump(m, "meal_entries")],
            meal_id, a.nutrients)

\* NutritionAnalysisResponse(...) validates its fields: description is a str,
\* healthkit_samples a list.
ResponseValid(raw, a) ==
    /\ a.description # None
    /\ a.description[1].t = "str"
    /\ raw.obj.healthkit_samples.shape \in {"list", "missing"}

\* The gateway's answers: the object as asked, bare, inside a ```json fence,
\* after prose, behind a fence that is never closed; no object at all; and
\* objects that are not as asked.
GatewayResponses ==
    {[text |-> t, obj |-> GoodMeal] :
        t \in {<< "{", "}" >>, << "F", "j", "{", "}", "F" >>, << "x", "{", "}" >>,
               << "F", "j", "{", "}" >>, << "x" >>}}
    \cup {[text |-> << "{", "}" >>, obj |-> o] :
             o \in {NoKeys, WordTotal, NullSamples, DictSamples, NullDescription}}

\* The mutant of LoopDuringCall: _run() called on the event loop itself.
LoopDuringCallBlocked == "blocked"

\* await loop.run_in_executor(None, _run): the gateway call runs on a pool
\* thread and the event loop stays free for other requests.
LoopDuringCall == "free"

\* The mutant of TimedOut: subprocess.run without a timeout.
NeverTimedOut(clock) == FALSE

\* subprocess.run(..., timeout=150) raises TimeoutExpired once the time is up.
TimedOut(clock) == clock >= MaxWait

\* Handlers run on the event loop, one step at a time.
EventLoopFree == nut.loop = "free"

\* The sync the nutrition specifications run beside an analysis.
NutPayloads == {[Bare(1) EXCEPT !.heart = Some(HeartRest)]}

InitNut ==
    /\ disk = InitDbResult(EmptyDb)
    /\ txn = disk
    /\ pc = "idle"
    /\ req = None
    /\ idx = 0
    /\ sync_id = 0
    /\ resp = NoResp
    /\ answer = NoAnswer
    /\ MoreInit

NutFrame == UNCHANGED << disk, txn, pc, req, idx, sync_id, resp, answer, conns, reply, api >>

\* POST /api/nutrition/analyze with a valid key: analyze_nutrition reads the
\* clock and builds its prompt.
Analyze(text) ==
    /\ nut.pc = "idle"
    /\ EventLoopFree
    /\ meals.seq["meal_entries"] < MaxMeals
    /\ nut' = [NoAnalysis EXCEPT !.pc = "call", !.text = Some(text), !.now = 1]
    /\ UNCHANGED << meals, lock >>
    /\ NutFrame

\* raw_response = await _call_agent(...): the one call of the gateway.
CallAgent ==
    /\ nut.pc = "call"
    /\ EventLoopFree
    /\ nut' = [nut EXCEPT !.pc = "waiting", !.calls = @ + 1, !.clock = 0,
                          !.loop = LoopDuringCall,
                          !.log_len = Cardinality(disk.sync_log)]
    /\ UNCHANGED << meals, lock >>
    /\ NutFrame

\* Time passes while the gateway works.
Tick ==
    /\ nut.pc = "waiting"
    /\ nut.clock < MaxWait
    /\ nut' = [nut EXCEPT !.clock = @ + 1]
    /\ UNCHANGED << meals, lock >>
    /\ NutFrame

\* The gateway answers in time with exit code 0.
GatewayReturns(r) ==
    /\ nut.pc = "waiting"
    /\ nut.clock < MaxWait
    /\ nut' = [nut EXCEPT !.pc = "parse", !.raw = Some(r), !.loop = "free"]
    /\ UNCHANGED << meals, lock >>
    /\ NutFrame

\* The analysis ends in an exception: the endpoint answers 500.
AnalysisFailed == nut' = [nut EXCEPT !.pc = "idle", !.loop = "free", !.status = "error"]

\* The gateway exits with a non-zero code: RuntimeError.
GatewayFails ==
    /\ nut.pc = "waiting"
    /\ nut.clock < MaxWait
    /\ AnalysisFailed
    /\ UNCHANGED << meals, lock >>
    /\ NutFrame

\* subprocess.TimeoutExpired
TimeoutExpired ==
    /\ nut.pc = "waiting"
    /\ TimedOut(nut.clock)
    /\ AnalysisFailed
    /\ UNCHANGED << meals, lock >>
    /\ NutFrame

\* From the extracted object to the arguments of store_meal_entry.
Build ==
    /\ nut.pc = "parsed"
    /\ IF nut.data[1].kind = "ok" /\ BuildOk(nut.raw[1].obj)
       THEN nut' = [nut EXCEPT !.pc = "store",
                               !.args = Some(BuildArgs(nut.raw[1], nut.text[1], nut.now))]
       ELSE AnalysisFailed
    /\ UNCHANGED << meals, lock >>
    /\ NutFrame

\* store_meal_entry: its INSERTs, under the write lock.
StoreMealInsert ==
    /\ nut.pc = "store"
    /\ WriteLockFree(lock, NutConn)
    /\ MealInsertOk(nut.args[1])
    /\ lock' = NutConn
    /\ nut' = [nut EXCEPT !.pc = "store_commit", !.txn = Some(StoreMealEntry(meals, nut.args[1]))]
    /\ UNCHANGED meals
    /\ NutFrame

\* await db.commit(); return meal_id
StoreMealCommit ==
    /\ nut.pc = "store_commit"
    /\ meals' = CommitTxn(meals, nut.txn[1])
    /\ lock' = 0
    /\ nut' = [nut EXCEPT !.pc = "respond", !.txn = None,
                          !.meal_id = Some(NextId(meals, "meal_entries"))]
    /\ NutFrame

\* An INSERT or the commit of store_meal_entry raises (NOT NULL constraint,
\* database locked, I/O error): the transaction is rolled back.
StoreMealFails ==
    /\ nut.pc \in {"store", "store_commit"}
    /\ lock' = IF lock = NutConn THEN 0 ELSE lock
    /\ AnalysisFailed
    /\ UNCHANGED meals
    /\ NutFrame

\* return NutritionAnalysisResponse(...): a validation error is an exception
\* like any other.
Respond ==
    /\ nut.pc = "respond"
    /\ IF ResponseValid(nut.raw[1], nut.args[1])
       THEN nut' = [nut EXCEPT !.pc = "idle", !.status = "ok"]
       ELSE AnalysisFailed
    /\ UNCHANGED << meals, lock >>
    /\ NutFrame

\* A sync served while an analysis may be in progress.
NutSync ==
    /\ EventLoopFree
    /\ WriteLockFree(lock, 0)
    /\ \E p \in NutPayloads : Synced(p)

\* A query served while an analysis may be in progress.
NutRead ==
    /\ EventLoopFree
    /\ ReadLatest

\* data = _extract_json(raw_response), within a request.
NutExtract ==
    /\ EventLoopFree
    /\ Extract

NextNut ==
    \/ Analyze(Str(1))
    \/ CallAgent
    \/ Tick
    \/ \E r \in GatewayResponses : GatewayReturns(r)
    \/ GatewayFails
    \/ TimeoutExpired
    \/ NutExtract
    \/ Build
    \/ StoreMealInsert
    \/ StoreMealCommit
    \/ StoreMealFails
    \/ Respond
    \/ NutSync
    \/ NutRead

\* Analyze requests served one at a time, beside syncs and queries.
SpecNut == InitNut /\ [][NextNut]_vars

\* The steps of an analysis that the server itself takes; the gateway's answer
\* is not among them.
AnalyzeStep ==
    \/ CallAgent
    \/ Tick
    \/ TimeoutExpired
    \/ NutExtract
    \/ Build
    \/ StoreMealInsert
    \/ StoreMealCommit
    \/ StoreMealFails
    \/ Respond

\* The same, with time passing and the server taking its steps.
SpecNutLive == InitNut /\ [][NextNut]_vars /\ WF_vars(AnalyzeStep)

\* ------------------------------------------------------------ meals by id

\* Largest rowid meal_nutrients hands out in one run.
MaxNutrientIds == 8

\* The ids a client asks for: every id a run can issue, and one more.
MealIds == 1 .. MaxMeals + 1

MealRows(m, meal_id) == {r \in m.meal_entries : r.id = meal_id}

NutrientRows(m, meal_id) == {n \in m.meal_nutrients : n.meal_entry_id = meal_id}

\* get_meal_entry: None for no row, else the row with its nutrients (each
\* shown with its rowid, which keeps equal nutrients apart).
GetMealEntry(m, meal_id) ==
    IF MealRows(m, meal_id) = {} THEN None
    ELSE Some([meal |-> CHOOSE r \in MealRows(m, meal_id) : TRUE,
               nutrients |-> NutrientRows(m, meal_id)])

\* The mutant of DeleteMealEntry: the meal row goes, its nutrients stay.
DeleteMealOnly(m, meal_id) ==
    IF MealRows(m, meal_id) = {} THEN [ok |-> FALSE, db |-> m]
    ELSE [ok |-> TRUE, db |-> [m EXCEPT !.meal_entries = @ \ MealRows(m, meal_id)]]

\* The mutant of DeleteMealEntry: the nutrients go, the meal row stays.
DeleteNutrientsOnly(m, meal_id) ==
    IF MealRows(m, meal_id) = {} THEN [ok |-> FALSE, db |-> m]
    ELSE [ok |-> TRUE,
          db |-> [m EXCEPT !.meal_nutrients = @ \ NutrientRows(m, meal_id)]]

\* delete_meal_entry: False for no row, else both DELETEs and the commit.
DeleteMealEntry(m, meal_id) ==
    IF MealRows(m, meal_id) = {} THEN [ok |-> FALSE, db |-> m]
    ELSE [ok |-> TRUE,
          db |-> [m EXCEPT !.meal_nutrients = @ \ NutrientRows(m, meal_id),
                           !.meal_entries = @ \ MealRows(m, meal_id)]]

\* update_meal_entry: False for no row; else the totals are set, description
\* and food_items_json are set unless None, and the nutrients are replaced
\* when a list is given.
UpdateMealEntry(m, meal_id, u) ==
    IF MealRows(m, meal_id) = {} THEN [ok |-> FALSE, db |-> m]
    ELSE LET old == CHOOSE r \in MealRows(m, meal_id) : TRUE
             new == [old EXCEPT !.total_calories = Some(u.total_calories),
                                !.total_protein_g = Some(u.total_protein_g),
                                !.total_carbs_g = Some(u.total_carbs_g),
                                !.total_fat_g = Some(u.total_fat_g),
                                !.description = Coalesce(u.description, @),
                                !.food_items_json = Coalesce(u.food_items_json, @)]
             m1 == [m EXCEPT !.meal_entries = (@ \ {old}) \cup {new}]
         IN  [ok |-> TRUE,
              db |-> IF u.nutrients = None THEN m1
                     ELSE InsertNutrients(
                              [m1 EXCEPT !.meal_nutrients = @ \ NutrientRows(m, meal_id)],
                              meal_id, u.nutrients[1])]

\* nutrition_meal_update: four nutrients for each food item of the request.
RECURSIVE ItemNutrients(_)
ItemNutrients(items) ==
    IF items = << >> THEN << >>
    ELSE << [name |-> "Energy", amount |-> Head(items).calories, unit |-> "kcal"],
            [name |-> "Protein", amount |-> Head(items).protein_g, unit |-> "g"],
            [name |-> "Carbohydrates", amount |-> Head(items).carbs_g, unit |-> "g"],
            [name |-> "Fat Total", amount |-> Head(items).fat_g, unit |-> "g"] >>
         \o ItemNutrients(Tail(items))

\* The arguments nutrition_meal_update passes to update_meal_entry.
UpdateArgs(request) ==
    [description |-> request.description,
     total_calories |-> request.totals.calories,
     total_protein_g |-> request.totals.protein_g,
     total_carbs_g |-> request.totals.carbs_g,
     total_fat_g |-> request.totals.fat_g,
     food_items_json |-> Some(request.food_items),
     nutrients |-> Some(ItemNutrients(request.food_items))]

\* The bodies of PUT /api/nutrition/meals/{meal_id}: a corrected portion, and a
\* meal renamed and emptied.
MealUpdateRequests ==
    {[description |-> None,
      totals |-> [calories |-> 150, protein_g |-> 13, carbs_g |-> 1, fat_g |-> 11],
      food_items |-> << [name |-> Str(3), portion |-> Str(8), calories |-> 150,
                         protein_g |-> 13, carbs_g |-> 1, fat_g |-> 11] >>],
     [description |-> Some(Str(2)),
      totals |-> [calories |-> 0, protein_g |-> 0, carbs_g |-> 0, fat_g |-> 0],
      food_items |-> << >>]}

\* What analyses store: the meal as asked for, and one from an object without keys.
MealArgs ==
    {BuildArgs([text |-> << "{", "}" >>, obj |-> o], Str(1), 1) : o \in {GoodMeal, NoKeys}}

MealFrame == UNCHANGED << disk, txn, pc, req, idx, sync_id, resp, answer, conns, lock, nut, api >>

\* An analysis has stored its meal.
MealStored(a) ==
    /\ meals.seq["meal_entries"] < MaxMeals
    /\ meals' = CommitTxn(meals, StoreMealEntry(meals, a))
    /\ reply' = [op |-> "store", meal_id |-> NextId(meals, "meal_entries"), status |-> 200,
                 body |-> None]
    /\ MealFrame

\* GET /api/nutrition/meals/{meal_id}
MealGet(meal_id) ==
    /\ LET meal == GetMealEntry(meals, meal_id)
       IN  reply' = [op |-> "get", meal_id |-> meal_id,
                     status |-> IF meal = None THEN 404 ELSE 200, body |-> meal]
    /\ UNCHANGED meals
    /\ MealFrame

\* PUT /api/nutrition/meals/{meal_id}
MealUpdate(meal_id, request) ==
    /\ meals.seq["meal_nutrients"] + 4 * Len(request.food_items) <= MaxNutrientIds
    /\ LET done == UpdateMealEntry(meals, meal_id, UpdateArgs(request))
       IN  /\ meals' = CommitTxn(meals, done.db)
           /\ reply' = [op |-> "put", meal_id |-> meal_id,
                        status |-> IF done.ok THEN 200 ELSE 404, body |-> None]
    /\ MealFrame

\* DELETE /api/nutrition/meals/{meal_id}
MealDelete(meal_id) ==
    /\ LET done == DeleteMealEntry(meals, meal_id)
       IN  /\ meals' = CommitTxn(meals, done.db)
           /\ reply' = [op |-> "delete", meal_id |-> meal_id,
                        status |-> IF done.ok THEN 200 ELSE 404, body |-> None]
    /\ MealFrame

NextMeals ==
    \/ \E a \in MealArgs : MealStored(a)
    \/ \E meal_id \in MealIds : MealGet(meal_id)
    \/ \E meal_id \in MealIds, request \in MealUpdateRequests : MealUpdate(meal_id, request)
    \/ \E meal_id \in MealIds : MealDelete(meal_id)

\* The meal endpoints, each request served whole.
SpecMeals == InitNut /\ [][NextMeals]_vars

\* ------------------------------------------------------------- the API key

\* Requests the handlers serve in one run.
MaxServed == 2

\* config.API_KEY, at its default.
API_KEY == "change-me-in-production"

\* The X-API-Key header of a request: absent, the key, another string, empty.
Keys == {None, Some(API_KEY), Some("change-me"), Some("")}

Endpoints ==
    {"sync", "summary", "latest", "workouts", "mood", "sleep", "ping", "analyze",
     "history", "nsummary", "meal_get", "meal_put", "meal_delete"}

\* The endpoints that declare a body, query or path parameter.
HasParams(e) == e \notin {"latest", "ping"}

\* The endpoints whose handler awaits analyze_nutrition.
CallsGateway(e) == e = "analyze"

AuthFrame == UNCHANGED << txn, pc, req, idx, sync_id, conns, lock, nut >>

\* A request arrives; valid says whether its body, query and path parameters
\* pass the declared types and ranges.
ApiRequest(e, k, valid) ==
    /\ api.pc \in {"idle", "done"}
    /\ api' = [NoApi EXCEPT !.pc = "validate", !.endpoint = e, !.key = k,
                            !.valid = valid \/ ~HasParams(e), !.served = api.served]
    /\ UNCHANGED << disk, meals, resp, answer, reply >>
    /\ AuthFrame

\* The framework resolves the declared parameters before it calls the
\* handler: x_api_key is Header(...), a required header, and a request
\* without it, or with a parameter that does not validate, is answered 422.
ResolveParameters ==
    /\ api.pc = "validate"
    /\ api' = IF api.endpoint # "ping" /\ (api.key = None \/ ~api.valid)
              THEN [api EXCEPT !.pc = "done", !.status = 422]
              ELSE [api EXCEPT !.pc = "handler"]
    /\ UNCHANGED << disk, meals, resp, answer, reply >>
    /\ AuthFrame

\* ping(): no key is read.
Ping ==
    /\ api.pc = "handler"
    /\ api.endpoint = "ping"
    /\ api' = [api EXCEPT !.pc = "done", !.status = 200]
    /\ UNCHANGED << disk, meals, resp, answer, reply >>
    /\ AuthFrame

\* verify_api_key(x_api_key), the first statement of every other handler.
VerifyApiKey ==
    /\ api.pc = "handler"
    /\ api.endpoint # "ping"
    /\ api' = IF api.key[1] # API_KEY
              THEN [api EXCEPT !.pc = "done", !.status = 401]
              ELSE [api EXCEPT !.pc = "authorized"]
    /\ UNCHANGED << disk, meals, resp, answer, reply >>
    /\ AuthFrame

\* What the handler answers with: the status and the connections it opened.
Served(status) ==
    api' = [api EXCEPT !.pc = "done", !.status = status, !.connects = 1,
                       !.gateway = IF CallsGateway(api.endpoint) THEN 1 ELSE 0,
                       !.served = @ + 1]

HandleSync ==
    /\ api.endpoint = "sync"
    /\ Cardinality(disk.sync_log) < MaxSyncs
    /\ \E p \in NutPayloads :
          /\ disk' = CommitTxn(disk, StoreSync(disk, p))
          /\ resp' = [status |-> "ok", sync_id |-> NextId(disk, "sync_log")]
    /\ Served(200)
    /\ UNCHANGED << meals, answer, reply >>

HandleRead ==
    /\ \E days \in 1 .. MaxWindow, today \in Todays :
          \/ /\ api.endpoint = "summary"
             /\ \E rows \in GetDailySummaries(disk, days) :
                   answer' = [kind |-> "summary", days |-> days, today |-> today, rows |-> rows]
          \/ /\ api.endpoint = "latest"
             /\ \E summary \in GetLatestSummary(disk) :
                   answer' = [kind |-> IF summary = None THEN "no_data" ELSE "latest",
                              days |-> 0, today |-> today, rows |-> summary]
          \/ /\ api.endpoint = "workouts"
             /\ \E rows \in GetWorkouts(disk, days, today) :
                   answer' = [kind |-> "workouts", days |-> days, today |-> today, rows |-> rows]
          \/ /\ api.endpoint = "mood"
             /\ \E rows \in GetMoodEntries(disk, days, today) :
                   answer' = [kind |-> "mood", days |-> days, today |-> today, rows |-> rows]
          \/ /\ api.endpoint = "sleep"
             /\ \E rows \in GetSleepSessions(disk, days, today) :
                   answer' = [kind |-> "sleep", days |-> days, today |-> today, rows |-> rows]
    /\ Served(200)
    /\ UNCHANGED << disk, meals, resp, reply >>

HandleAnalyze ==
    /\ api.endpoint = "analyze"
    /\ meals.seq["meal_entries"] < MaxMeals
    /\ \E a \in MealArgs :
          /\ meals' = CommitTxn(meals, StoreMealEntry(meals, a))
          /\ reply' = [op |-> "store", meal_id |-> NextId(meals, "meal_entries"),
                       status |-> 200, body |-> None]
    /\ Served(200)
    /\ UNCHANGED << disk, resp, answer >>

HandleNutritionRead ==
    /\ api.endpoint \in {"history", "nsummary"}
    /\ reply' = [op |-> api.endpoint, meal_id |-> 0, status |-> 200, body |-> None]
    /\ Served(200)
    /\ UNCHANGED << disk, meals, resp, answer >>

HandleMeal ==
    \E meal_id \in MealIds :
       /\ \/ /\ api.endpoint = "meal_get"
             /\ LET meal == GetMealEntry(meals, meal_id)
                IN  /\ reply' = [op |-> "get", meal_id |-> meal_id,
                                 status |-> IF meal = None THEN 404 ELSE 200, body |-> meal]
                    /\ Served(reply'.status)
             /\ UNCHANGED meals
          \/ /\ api.endpoint = "meal_put"
             /\ \E request \in MealUpdateRequests :
                   /\ meals.seq["meal_nutrients"] + 4 * Len(request.food_items) <= MaxNutrientIds
                   /\ LET done == UpdateMealEntry(meals, meal_id, UpdateArgs(request))
                      IN  /\ meals' = CommitTxn(meals, done.db)
                          /\ reply' = [op |-> "put", meal_id |-> meal_id,
                                       status |-> IF done.ok THEN 200 ELSE 404, body |-> None]
                          /\ Served(reply'.status)
          \/ /\ api.endpoint = "meal_delete"
             /\ LET done == DeleteMealEntry(meals, meal_id)
                IN  /\ meals' = CommitTxn(meals, done.db)
                    /\ reply' = [op |-> "delete", meal_id |-> meal_id,
                                 status |-> IF done.ok THEN 200 ELSE 404, body |-> None]
                    /\ Served(reply'.status)
       /\ UNCHANGED << disk, resp, answer >>

\* The rest of the handler, after verify_api_key has returned.
Handle ==
    /\ api.pc = "authorized"
    /\ api.served < MaxServed
    /\ \/ HandleSync
       \/ HandleRead
       \/ HandleAnalyze
       \/ HandleNutritionRead
       \/ HandleMeal
    /\ AuthFrame

NextAuth ==
    \/ \E e \in Endpoints, k \in Keys, valid \in BOOLEAN : ApiRequest(e, k, valid)
    \/ ResolveParameters
    \/ Ping
    \/ VerifyApiKey
    \/ Handle

\* The endpoints, one request at a time, from arrival to response.
SpecAuth == InitNut /\ [][NextAuth]_vars

\* -------------------------------------------------- daily nutrition summary

\* Date texts are numbered: the YYYY-MM-DD text of day d is d itself (as in
\* every date column), its YYYYMMDD text is 100 + d, and 0 is a text that is no
\* date ("yesterday", "", "2024-13-01").
ExtendedText(d) == d

BasicText(d) == 100 + d

\* date_type.fromisoformat(date): the set of outcomes, None for ValueError.
\* The YYYY-MM-DD text parses; the YYYYMMDD text parses from Python 3.11 on
\* and raises before; any other text raises.
FromIsoFormat(date) ==
    IF date \in 1 .. 99 THEN {Some(date)}
    ELSE IF date > 100 THEN {Some(date - 100), None}
    ELSE {None}

\* The date query parameter: absent, or one of the texts.
DateParams ==
    {None} \cup {Some(ExtendedText(d)) : d \in 1 .. MaxDay + 1}
    \cup {Some(BasicText(d)) : d \in Days} \cup {Some(0)}

\* date_type.today() is the server's local date; analyze_nutrition dates a meal
\* by datetime.now(timezone.utc). With the UTC date utc, the local date is utc
\* or a neighbour of it.
LocalDates(utc) == {utc - 1, utc, utc + 1} \cap (1 .. MaxDay + 1)

\* SUM(col) over rows, NULLs skipped; 0 for no value (COALESCE(SUM(col), 0)).
RECURSIVE SumColumn(_, _)
SumColumn(rows, col) ==
    IF rows = {} THEN 0
    ELSE LET r == CHOOSE x \in rows : TRUE
         IN  (IF r[col] = None THEN 0 ELSE r[col][1]) + SumColumn(rows \ {r}, col)

\* SUM(mn.amount) over the rows of one group.
RECURSIVE SumAmount(_)
SumAmount(rows) ==
    IF rows = {} THEN 0
    ELSE LET r == CHOOSE x \in rows : TRUE IN r.amount + SumAmount(rows \ {r})

\* The mutant of GetDailyNutritionSummary: the WHERE clauses are missing.
GetAllTimeNutritionSummary(m, date) ==
    LET entries == m.meal_entries
        joined == {n \in m.meal_nutrients :
                     \E me \in entries : n.meal_entry_id = me.id}
    IN  [meal_count |-> Cardinality(entries),
         total_calories |-> SumColumn(entries, "total_calories"),
         total_protein_g |-> SumColumn(entries, "total_protein_g"),
         total_carbs_g |-> SumColumn(entries, "total_carbs_g"),
         total_fat_g |-> SumColumn(entries, "total_fat_g"),
         nutrients |->
             {[nutrient_name |-> n.nutrient_name,
               total_amount |-> SumAmount({o \in joined :
                                   o.nutrient_name = n.nutrient_name /\ o.unit = n.unit}),
               unit |-> n.unit] : n \in joined},
         date |-> date]

\* get_daily_nutrition_summary(date): COUNT and SUMs over meal_entries WHERE
\* date = ?, and SUM(amount) GROUP BY nutrient_name, unit over the nutrients
\* joined to those entries.
GetDailyNutritionSummary(m, date) ==
    LET entries == {me \in m.meal_entries : me.date = date}
        joined == {n \in m.meal_nutrients :
                     \E me \in entries : n.meal_entry_id = me.id}
    IN  [meal_count |-> Cardinality(entries),
         total_calories |-> SumColumn(entries, "total_calories"),
         total_protein_g |-> SumColumn(entries, "total_protein_g"),
         total_carbs_g |-> SumColumn(entries, "total_carbs_g"),
         total_fat_g |-> SumColumn(entries, "total_fat_g"),
         nutrients |->
             {[nutrient_name |-> n.nutrient_name,
               total_amount |-> SumAmount({o \in joined :
                                   o.nutrient_name = n.nutrient_name /\ o.unit = n.unit}),
               unit |-> n.unit] : n \in joined},
         date |-> date]

InitSummary ==
    /\ disk = InitDbResult(EmptyDb)
    /\ txn = disk
    /\ pc = "idle"
    /\ req = None
    /\ idx = 0
    /\ sync_id = 0
    /\ resp = NoResp
    /\ answer = NoAnswer
    /\ conns = [i \in Procs |-> NoConn]
    /\ lock = 0
    /\ meals = EmptyMeals
    /\ nut = [NoAnalysis EXCEPT !.now = 1]
    /\ reply = NoReply
    /\ api = NoApi

SummaryFrame == UNCHANGED << disk, txn, pc, req, idx, sync_id, resp, answer, conns, lock >>

\* The UTC date moves on.
DayPasses ==
    /\ nut.now < MaxDay
    /\ nut' = [nut EXCEPT !.now = @ + 1]
    /\ UNCHANGED << meals, reply, api >>
    /\ SummaryFrame

\* An analysis stores its meal under the UTC date.
SummaryMealStored(obj) ==
    /\ meals.seq["meal_entries"] < MaxMeals + 1
    /\ meals' = CommitTxn(meals, StoreMealEntry(meals,
                     BuildArgs([text |-> << "{", "}" >>, obj |-> obj], Str(1), nut.now)))
    /\ reply' = [op |-> "store", meal_id |-> NextId(meals, "meal_entries"), status |-> 200,
                 body |-> None]
    /\ UNCHANGED << nut, api >>
    /\ SummaryFrame

\* GET /api/nutrition/summary with a valid key, the server's local date being
\* today: the default, the validation, and the query.
NutritionSummary(param, today) ==
    /\ LET date == IF param = None THEN ExtendedText(today) ELSE param[1]
       IN  \E parsed \in FromIsoFormat(date) :
              IF parsed = None
              THEN /\ reply' = [op |-> "nsummary", meal_id |-> 0, status |-> 400, body |-> None]
                   /\ api' = [NoApi EXCEPT !.pc = "done", !.endpoint = "nsummary",
                                           !.status = 400, !.connects = 0]
              ELSE /\ reply' = [op |-> "nsummary", meal_id |-> 0, status |-> 200,
                                body |-> Some(GetDailyNutritionSummary(meals, date))]
                   /\ api' = [NoApi EXCEPT !.pc = "done", !.endpoint = "nsummary",
                                           !.status = 200, !.connects = 1]
    /\ UNCHANGED << meals, nut >>
    /\ SummaryFrame

NextSummary ==
    \/ DayPasses
    \/ \E obj \in {GoodMeal, NoKeys} : SummaryMealStored(obj)
    \/ \E param \in DateParams, today \in LocalDates(nut.now) : NutritionSummary(param, today)

\* Meals stored over the days, and the summary endpoint reading them.
SpecSummary == InitSummary /\ [][NextSummary]_vars

\* ------------------------------------------------------------------ claims

\* The step in which a sync commits, and the payload it commits.
Commits == pc = "commit" /\ pc' = "return"

Target == DateStr(req[1].period_to)

\* The data columns of the categories a payload leaves out.
AbsentCols(p) ==
    (IF p.activity = None THEN ActivityCols ELSE {})
    \cup (IF p.heart = None THEN HeartCols ELSE {})
    \cup (IF p.body = None THEN BodyCols ELSE {})
    \cup (IF p.vitals = None THEN VitalsCols ELSE {})
    \cup (IF p.body_battery = None THEN {"body_battery"} ELSE {})
    \cup (IF p.sleep = << >> THEN SleepCols ELSE {})
    \cup (IF p.workouts = << >> THEN WorkoutCols ELSE {})
    \cup (IF p.mood = << >> THEN {"mood_avg_valence"} ELSE {})
    \cup (IF p.mindfulness = << >> THEN {"mindfulness_minutes"} ELSE {})

Elems(s) == {s[i] : i \in 1 .. Len(s)}

\* C1: field-wise merge. A sync whose period_to falls on D leaves every
\* daily_summary column of a category absent from its payload exactly as it was
\* in the row for D; in particular steps=8000 survives a later sync that
\* carries only heart.resting_hr=55, which sets resting_hr=55.
C1_FieldwiseMerge ==
    [][Commits =>
         \A r \in disk.daily_summary :
            r.date = Target =>
               \E r2 \in disk'.daily_summary :
                  /\ r2.date = r.date
                  /\ \A c \in AbsentCols(req[1]) : r2[c] = r[c]
                  /\ (req[1] = [Bare(Target) EXCEPT !.heart = Some(HeartRest)]
                      /\ r.steps = Some(8000))
                     => (r2.steps = Some(8000) /\ r2.resting_hr = Some(55))]_vars

\* C1 witness: activity with steps=8000 was synced for a date, then a payload
\* with only resting_hr=55 for the same date, and the row holds both.
C1_Witness ==
    \E r \in disk.daily_summary, a, b \in disk.sync_log :
       /\ a.id < b.id
       /\ a.payload_json.json = [Bare(r.date) EXCEPT !.activity = Some(ActFull)]
       /\ b.payload_json.json = [Bare(r.date) EXCEPT !.heart = Some(HeartRest)]
       /\ r.steps = Some(8000)
       /\ r.resting_hr = Some(55)

\* The indices of the payload's sleep sessions that end on date d.
EndingOn(p, d) == {i \in 1 .. Len(p.sleep) : DateStr(p.sleep[i].end) = d}

Longer(a, b) == IF a >= b THEN a ELSE b

\* C2 as claimed: whenever a payload carries two sleep sessions with the same
\* end-date, the summary row of that date afterwards holds the greater of their
\* two durations as sleep_duration_min.
C2_Original ==
    [][Commits =>
         \A i, j \in 1 .. Len(req[1].sleep) :
            (i < j /\ DateStr(req[1].sleep[i].end) = DateStr(req[1].sleep[j].end)) =>
               \E r2 \in disk'.daily_summary :
                  /\ r2.date = DateStr(req[1].sleep[i].end)
                  /\ r2.sleep_duration_min =
                        Some(Longer(req[1].sleep[i].total_duration_min,
                                    req[1].sleep[j].total_duration_min))]_vars

\* C2 amended: when sleep sessions of one payload end on the payload's
\* period_to date, the summary row of that date afterwards holds as
\* sleep_duration_min the greatest total_duration_min among them (if that is
\* not 0), never their sum; sessions ending on another date change no summary.
C2_LongestOfPayload ==
    [][Commits =>
         LET on == EndingOn(req[1], Target)
             durs == {req[1].sleep[i].total_duration_min : i \in on}
         IN  /\ (on # {} /\ SetMax(durs) # 0) =>
                   \E r2 \in disk'.daily_summary :
                      /\ r2.date = Target
                      /\ r2.sleep_duration_min = Some(SetMax(durs))
                      /\ Cardinality(durs) > 1 =>
                            r2.sleep_duration_min[1] < SumSeq(Column(req[1].sleep, "total_duration_min"))
             /\ on = {} =>
                   \A r \in disk.daily_summary :
                      \E r2 \in disk'.daily_summary :
                         /\ r2.date = r.date
                         /\ \A c \in SleepCols : r2[c] = r[c]]_vars

\* C2 witness: a payload with the 90-minute and the 420-minute session of one
\* night, in that order, is committed and the row holds 420.
C2_Witness ==
    /\ pc = "return"
    /\ req[1].sleep = << Watch(Target), Night(Target) >>
    /\ \E r \in disk.daily_summary :
          r.date = Target /\ r.sleep_duration_min = Some(420)

\* C3 as claimed (weakened to rows that hold a sleep total): in every state,
\* the sleep_duration_min of the row for D is the total_duration_min of the
\* longest session stored in sleep_sessions with date D.
C3_LongestStored ==
    \A r \in disk.daily_summary :
       LET stored == {s \in disk.sleep_sessions : s.date = r.date}
       IN  (r.sleep_duration_min # None /\ stored # {}) =>
              r.sleep_duration_min =
                 Some(SetMax({s.total_duration_min : s \in stored}))

UniqueKey(rows) ==
    \A a, b \in rows : (a.date = b.date /\ a.start_time = b.start_time) => a = b

SleepKey(s) == << DateStr(s.end), IsoFormat(s.start) >>

\* C4: after init_db and any syncs, sleep_sessions holds at most one row per
\* (date, start_time); a session resubmitted under a stored key adds no row and
\* overwrites end_time, both durations and the stages of the stored row.
C4_SleepUpsert ==
    [][/\ UniqueKey(disk'.sleep_sessions)
       /\ Commits =>
            LET sleep == req[1].sleep
                old == {<< r.date, r.start_time >> : r \in disk.sleep_sessions}
                fresh == {SleepKey(x) : x \in Elems(sleep)} \ old
            IN  /\ Cardinality(disk'.sleep_sessions)
                      = Cardinality(disk.sleep_sessions) + Cardinality(fresh)
                /\ \A r \in disk.sleep_sessions :
                      LET same == {i \in 1 .. Len(sleep) :
                                      SleepKey(sleep[i]) = << r.date, r.start_time >>}
                      IN  same # {} =>
                             \E r2 \in disk'.sleep_sessions :
                                LET x == sleep[SetMax(same)]
                                IN  /\ r2.id = r.id
                                    /\ r2.date = r.date
                                    /\ r2.start_time = r.start_time
                                    /\ r2.end_time = IsoFormat(x.end)
                                    /\ r2.total_duration_min = x.total_duration_min
                                    /\ r2.in_bed_duration_min = x.in_bed_duration_min
                                    /\ r2.stages_json = x.stages]_vars

\* C4 witness: a night was synced and later resubmitted with the same start
\* and other values; its key has one row, holding the resubmitted values.
C4_Witness ==
    \E a, b \in disk.sync_log, d \in Days :
       /\ a.id < b.id
       /\ Night(d) \in Elems(a.payload_json.json.sleep)
       /\ Redo(d) \in Elems(b.payload_json.json.sleep)
       /\ \E r \in disk.sleep_sessions :
             /\ << r.date, r.start_time >> = SleepKey(Redo(d))
             /\ r.total_duration_min = 300
             /\ r.end_time = IsoFormat(Redo(d).end)

\* C5: store_sync is atomic. The file's content changes only when a sync
\* commits, and then by all of that payload's writes at once (its sync_log row,
\* summary upsert and detail rows); a sync that fails leaves the file as it was.
\* (init_db changes the file only when it migrates it at the first start.)
C5_Atomic ==
    [][/\ disk' # disk =>
            \/ pc = "boot"
            \/ Commits /\ disk' = StoreSync(disk, req[1])
       /\ (pc' = "idle" /\ resp'.status = "error") => disk' = disk]_vars

\* C5 witness: a sync is running with uncommitted sync_log, summary and detail
\* writes, any statement of which may still fail.
C5_Witness ==
    /\ pc = "sleep"
    /\ txn.sync_log # disk.sync_log
    /\ txn.daily_summary # disk.daily_summary
    /\ txn.workouts # disk.workouts
    /\ disk.sync_log # {}

\* The logged payloads in the order of their ids.
LogPayloads(db) ==
    [i \in 1 .. Cardinality(db.sync_log) |->
        (CHOOSE l \in db.sync_log : l.id = i).payload_json.json]

RECURSIVE Replay(_, _)
Replay(db, ps) == IF ps = << >> THEN db ELSE Replay(StoreSync(db, Head(ps)), Tail(ps))

\* ps with its i-th and (i+1)-th element exchanged.
Swap(ps, i) ==
    [k \in 1 .. Len(ps) |-> IF k = i THEN ps[i + 1] ELSE IF k = i + 1 THEN ps[i] ELSE ps[k]]

NoId(rows) == {[c \in DOMAIN r \ {"id"} |-> r[c]] : r \in rows}

C7_AckAfterCommit ==
    [][/\ (resp' # resp /\ resp'.status = "ok") =>
            /\ pc = "return"
            /\ \E l \in disk.sync_log :
                  l.id = resp'.sync_id /\ l.payload_json = ModelDumpJson(req[1])
            /\ \E r \in disk.daily_summary :
                  /\ r.date = Target
                  /\ req[1].activity # None => r.steps = req[1].activity[1].steps
                  /\ req[1].body_battery # None => r.body_battery = req[1].body_battery
            /\ \A w \in Elems(req[1].workouts) :
                  \E r \in disk.workouts : r.start_time = IsoFormat(w.start)
            /\ \A m \in Elems(req[1].mood) :
                  \E r \in disk.mood_entries :
                     r.timestamp = IsoFormat(m.timestamp) /\ r.valence = m.valence
            /\ \A x \in Elems(req[1].sleep) :
                  \E r \in disk.sleep_sessions :
                     << r.date, r.start_time >> = SleepKey(x)
       /\ (pc \in {"insert_log", "upsert_summary", "workouts", "mood", "sleep", "commit"}
           /\ pc' = "idle") => resp'.status = "error"]_vars

\* C7 witness: a payload with every category has been answered ok and its
\* sync_log row is in the file.
C7_Witness ==
    /\ pc = "idle"
    /\ resp.status = "ok"
    /\ \E l \in disk.sync_log :
          /\ l.id = resp.sync_id
          /\ l.payload_json.json = Full(l.payload_json.json.period_to.day)

\* C8: daily_summary holds at most one row per date. A sync creates the row of
\* its period_to date when there is none and otherwise updates that row in
\* place; it creates or changes no row of another date, whatever the dates of
\* its sleep, workout and mood records; no row is ever deleted.
C8_OneRowPerDate ==
    [][/\ \A a, b \in disk'.daily_summary : a.date = b.date => a = b
       /\ \A r \in disk.daily_summary :
             \E r2 \in disk'.daily_summary : r2.id = r.id /\ r2.date = r.date
       /\ ~Commits => disk'.daily_summary = disk.daily_summary
       /\ Commits =>
            /\ \E r2 \in disk'.daily_summary : r2.date = Target
            /\ \A r2 \in disk'.daily_summary :
                  r2.date # Target => r2 \in disk.daily_summary
            /\ \A r \in disk.daily_summary :
                  r.date # Target => r \in disk'.daily_summary]_vars

\* C8 witness: a payload for one date carrying sleep of the day before has been
\* committed after a sync for that earlier date; both dates have their row and
\* the earlier date's row holds no sleep.
C8_Witness ==
    /\ pc = "return"
    /\ Target - 1 \in Days
    /\ req[1].sleep = << Night(Target - 1), Watch(Target - 1) >>
    /\ \E r \in disk.daily_summary : r.date = Target
    /\ \E r \in disk.daily_summary : r.date = Target - 1 /\ r.sleep_duration_min = None

\* C9: sync_log is append-only. Every committed sync adds exactly one row, with
\* the payload's serialized form and an id above every id in the table, and
\* that id is the sync_id the endpoint returns; no step changes or removes a row.
C9_AppendOnlyLog ==
    [][/\ disk.sync_log \subseteq disk'.sync_log
       /\ ~Commits => disk'.sync_log = disk.sync_log
       /\ Commits =>
            \E l \in disk'.sync_log :
               /\ l \notin disk.sync_log
               /\ disk'.sync_log = disk.sync_log \cup {l}
               /\ l.payload_json = ModelDumpJson(req[1])
               /\ l.period_to = IsoFormat(req[1].period_to)
               /\ l.id = sync_id
               /\ \A o \in disk.sync_log : o.id < l.id
       /\ (resp' # resp /\ resp'.status = "ok") =>
            /\ resp'.sync_id = sync_id
            /\ \A o \in disk.sync_log : o.id <= resp'.sync_id
            /\ Cardinality({o \in disk.sync_log : o.id = resp'.sync_id}) = 1]_vars

\* C9 witness: two syncs were committed and answered; the log holds their two
\* rows and the last answer carries the greater id.
C9_Witness ==
    /\ pc = "idle"
    /\ resp = [status |-> "ok", sync_id |-> 2]
    /\ {l.id : l \in disk.sync_log} = {1, 2}

\* The table a query reads.
TableOf(kind) ==
    CASE kind = "summary" -> disk.daily_summary
      [] kind = "workouts" -> disk.workouts
      [] kind = "mood" -> disk.mood_entries
      [] kind = "sleep" -> disk.sleep_sessions

\* C10 as claimed: a windowed read with day count N answers exactly the stored
\* rows dated within [today - N, today]: none before, none after, none missing.
C10_ExactWindow ==
    answer.kind \in {"summary", "workouts", "mood", "sleep"} =>
       Elems(answer.rows) =
          {r \in TableOf(answer.kind) :
              answer.today - answer.days <= r.date /\ r.date <= answer.today}

\* C11: get_latest_summary() is get_daily_summaries(1)[0], the row of the
\* greatest date, whenever daily_summary holds a row, and the no-data sentinel
\* None (answered by /latest as status no_data) when it holds none.
C11_LatestSummary ==
    /\ \A summary \in GetLatestSummary(disk) :
          /\ disk.daily_summary = {} <=> summary = None
          /\ summary # None =>
                /\ \E rows \in GetDailySummaries(disk, 1) : summary[1] = rows[1]
                /\ summary[1] \in disk.daily_summary
                /\ \A r \in disk.daily_summary : r.date <= summary[1].date
    /\ answer.kind = "no_data" => (answer.rows = None /\ disk.daily_summary = {})
    /\ answer.kind = "latest" =>
          /\ answer.rows \in GetLatestSummary(disk)
          /\ \A r \in disk.daily_summary : r.date <= answer.rows[1].date

\* C11 witness: two dates have a summary row and /latest answered the later one.
C11_Witness ==
    /\ answer.kind = "latest"
    /\ \E r \in disk.daily_summary : r.date < answer.rows[1].date

\* C13: workouts are append-only without a dedup key. A committed sync adds one
\* row per workout of its payload, each with a fresh id and dated by the
\* workout's own start, whatever the payload's period_to and whatever rows the
\* table holds already; no step changes or removes a workouts row.
C13_WorkoutsAppendOnly ==
    [][/\ disk.workouts \subseteq disk'.workouts
       /\ ~Commits => disk'.workouts = disk.workouts
       /\ Commits =>
            LET ws == req[1].workouts
                added == disk'.workouts \ disk.workouts
            IN  /\ Cardinality(added) = Len(ws)
                /\ Cardinality(disk'.workouts) = Cardinality(disk.workouts) + Len(ws)
                /\ \A i \in 1 .. Len(ws) :
                      \E r \in added :
                         /\ r.id = disk.seq["workouts"] + i
                         /\ r.date = DateStr(ws[i].start)
                         /\ r.start_time = IsoFormat(ws[i].start)
                         /\ r.workout_type = ws[i].workout_type
                         /\ r.duration_min = ws[i].duration_min]_vars

\* C13 witness: the same payload, for day 2 with a workout of day 1, was synced
\* twice; the table holds two copies of each of its workouts, the earlier
\* workout dated day 1.
C13_Witness ==
    /\ pc = "return"
    /\ req[1] = [Bare(2) EXCEPT !.workouts = << Run(1), Run(2) >>]
    /\ \A l \in disk.sync_log : l.payload_json = ModelDumpJson(req[1])
    /\ Cardinality(disk.sync_log) = 2
    /\ Cardinality({r \in disk.workouts : r.date = 1 /\ r.start_time = IsoFormat(Run(1).start)}) = 2
    /\ Cardinality({r \in disk.workouts : r.date = 2}) = 2

\* The mood_avg_valence stored for date d, None when d has no row.
StoredMoodAvg(db, d) ==
    IF \E r \in db.daily_summary : r.date = d
    THEN (CHOOSE r \in db.daily_summary : r.date = d).mood_avg_valence
    ELSE None

\* C14: after a sync with a non-empty mood list the summary row of the
\* period_to date holds as mood_avg_valence the arithmetic mean of that
\* payload's valences alone, also when the mean is 0; after a sync with an
\* empty mood list it holds what it held before.
C14_MoodAverage ==
    [][Commits =>
         LET vs == Column(req[1].mood, "valence")
             now == StoredMoodAvg(disk', Target)
         IN  /\ vs # << >> => (now # None /\ now[1] * Len(vs) = SumSeq(vs))
             /\ vs = << >> => now = StoredMoodAvg(disk, Target)]_vars

\* C14 witness: a date that already had mood entries and a non-zero average
\* received a payload whose valences average to 0; the row holds 0 although the
\* stored entries of the date average otherwise.
C14_Witness ==
    /\ pc = "return"
    /\ req[1].mood # << >>
    /\ SumSeq(Column(req[1].mood, "valence")) = 0
    /\ StoredMoodAvg(disk, Target) = Some(0)
    /\ \E l \in disk.sync_log :
          /\ l.payload_json.json.mood = << Mood(Target, 10) >>
          /\ l.id < sync_id
    /\ LET stored == {m \in disk.mood_entries : m.date = Target}
       IN  Cardinality(stored) = 3

\* C15: concurrent syncs serialize. Under every interleaving of the statements
\* of two store_sync calls the committed store equals the one that results from
\* running the committed syncs one after the other in the order of their
\* commits (the order of their sync_log ids): for one date the later commit
\* wins each field it carries, for different dates both rows are there; a
\* sync that answers ok has its own payload in the log under the id it returns.
C15_Serializable ==
    /\ disk = Replay(InitDbResult(EmptyDb), LogPayloads(disk))
    /\ \A i \in Procs :
          (conns[i].status = "ok" \/ conns[i].pc = "return") =>
             \E l \in disk.sync_log :
                l.id = conns[i].sync_id /\ l.payload_json = ModelDumpJson(conns[i].req[1])
    /\ \A a, b \in disk.sync_log :
          DateStr(a.payload_json.json.period_to) # DateStr(b.payload_json.json.period_to) =>
             \E ra, rb \in disk.daily_summary :
                /\ ra.date = DateStr(a.payload_json.json.period_to)
                /\ rb.date = DateStr(b.payload_json.json.period_to)

\* C15 witness: a sync with heart data for a date has committed while a second
\* sync with other heart data for the same date, which arrived meanwhile, has
\* taken the lock after it and is about to commit its own values.
C15_Witness ==
    \E i, j \in Procs :
       /\ i # j
       /\ conns[i].pc = "return"
       /\ conns[j].pc = "commit"
       /\ lock = j
       /\ conns[i].sync_id = 1
       /\ conns[j].sync_id = 2
       /\ DateStr(conns[i].req[1].period_to) = DateStr(conns[j].req[1].period_to)
       /\ conns[i].req[1].heart = Some(HeartFull)
       /\ conns[j].req[1].heart = Some(HeartRest)
       /\ \E r \in conns[j].txn[1].daily_summary : r.resting_hr = Some(55) /\ r.steps = Some(8000)

\* The text between the opening fence `open` and the next fence, None when
\* the text has no such fence or the fence is not closed.
Fenced(t, open) ==
    IF ~Contains(t, open) THEN None
    ELSE LET start == Index(t, open, 1) + Len(open)
         IN  IF Index(t, << "F" >>, start) = 0 THEN None
             ELSE Some(Strip(SubSeq(t, start, Index(t, << "F" >>, start) - 1)))

\* The text from the first { to the last }, None without both.
Braced(t) ==
    IF Contains(t, << "{" >>) /\ Contains(t, << "}" >>)
    THEN Some(SubSeq(t, SetMin(Occurs(t, << "{" >>)), SetMax(Occurs(t, << "}" >>))))
    ELSE None

\* The candidates of the four strategies, in their order.
Candidates(t) ==
    << Some(t), Fenced(t, << "F", "j" >>), Fenced(t, << "F" >>), Braced(t) >>

Yields(c) == c # None /\ JsonLoads(c[1])

\* C16 as claimed: _extract_json returns the object of the first strategy, in
\* the order direct parse, ```json fence, any ``` fence, first { to last },
\* whose candidate parses, a later strategy being tried whenever the earlier
\* ones yield no JSON; it fails only when no strategy's candidate parses.
C16_OrderedFallback ==
    nut.pc = "parsed" =>
       LET cs == Candidates(Strip(nut.raw[1].text))
           hits == {k \in 1 .. 4 : Yields(cs[k])}
           res == nut.data[1]
       IN  /\ hits = {} <=> res.kind = "raise"
           /\ hits # {} => res = ParseOk(cs[SetMin(hits)][1])

\* C17 as claimed: when an analysis ends in a failure, whatever its cause, the
\* request has stored no meal: the step that answers the error leaves
\* meal_entries and meal_nutrients as they are and no earlier step of the
\* request has committed a row.
C17_NoMealOnFailure ==
    [][(nut.pc # "idle" /\ nut'.pc = "idle" /\ nut'.status = "error") =>
          (meals' = meals /\ nut.meal_id = None)]_vars

\* C18: an analyze request calls the gateway at most once, and every request
\* ends: with the gateway's result, or with a failure once the timeout of
\* the call is up.
C18_BoundedOnce ==
    /\ [](nut.calls <= 1)
    /\ [](nut.pc = "waiting" => nut.clock <= MaxWait)
    /\ (nut.pc # "idle") ~> (nut.pc = "idle")

\* C18 witness: the gateway never answered; the request ended with a failure
\* after its one call, when the time was up.
C18_Witness ==
    /\ nut.pc = "idle"
    /\ nut.status = "error"
    /\ nut.calls = 1
    /\ nut.clock = MaxWait
    /\ nut.raw = None

\* C19: while an analysis waits for the gateway the event loop is free and the
\* analysis holds no connection, lock or transaction: a sync (as long as the
\* run allows one more) and a query can be served at once.
C19_NoBlocking ==
    nut.pc = "waiting" =>
       /\ EventLoopFree
       /\ lock # NutConn
       /\ nut.txn = None
       /\ Cardinality(disk.sync_log) < MaxSyncs => ENABLED NutSync
       /\ ENABLED NutRead

\* C19 witness: since the gateway was called a sync has been committed and a
\* query answered after it, and the analysis is still waiting.
C19_Witness ==
    /\ nut.pc = "waiting"
    /\ Cardinality(disk.sync_log) > nut.log_len
    /\ resp.status = "ok"
    /\ answer.kind = "latest"

MealExists(m, meal_id) == \E r \in m.meal_entries : r.id = meal_id

\* C20: get, update and delete of an id without a meal_entries row answer 404
\* and leave both tables as they are; on the id of a row they answer 200, get
\* returning the row with its nutrients, update leaving the row in place,
\* delete removing the row and its nutrients; and an id once deleted never
\* names a row again, so every later request for it answers 404.
C20_MealNotFound ==
    [][\A meal_id \in MealIds :
          /\ MealGet(meal_id) =>
                /\ reply'.status = (IF MealExists(meals, meal_id) THEN 200 ELSE 404)
                /\ MealExists(meals, meal_id) <=> reply'.body # None
                /\ meals' = meals
          /\ (\E request \in MealUpdateRequests : MealUpdate(meal_id, request)) =>
                /\ reply'.status = (IF MealExists(meals, meal_id) THEN 200 ELSE 404)
                /\ ~MealExists(meals, meal_id) => meals' = meals
                /\ MealExists(meals, meal_id) => MealExists(meals', meal_id)
          /\ MealDelete(meal_id) =>
                /\ reply'.status = (IF MealExists(meals, meal_id) THEN 200 ELSE 404)
                /\ ~MealExists(meals, meal_id) => meals' = meals
                /\ ~MealExists(meals', meal_id)
                /\ NutrientRows(meals', meal_id) = {}
          /\ (meal_id <= meals.seq["meal_entries"] /\ ~MealExists(meals, meal_id)) =>
                ~MealExists(meals', meal_id)]_vars

\* C20 witness: meal 1 was deleted and a meal stored after that; a get of id 1
\* has answered 404 while meal 2 is there.
C20_Witness ==
    /\ reply = [op |-> "get", meal_id |-> 1, status |-> 404, body |-> None]
    /\ meals.seq["meal_entries"] = 2
    /\ ~MealExists(meals, 1)
    /\ MealExists(meals, 2)

\* C12: on every endpoint except ping, a request whose X-API-Key header is not
\* exactly the configured key is answered 401, and no step of it reads or
\* writes the store or invokes the gateway; ping is answered 200 whatever the
\* key, also without one.
C12_AuthFirst ==
    [][/\ (api.pc \in {"validate", "handler", "authorized"}
           /\ api.endpoint # "ping" /\ api.key # Some(API_KEY)) =>
             /\ UNCHANGED << disk, meals, resp, answer, reply >>
             /\ api'.connects = 0
             /\ api'.gateway = 0
             /\ api'.pc = "done" => api'.status = 401
       /\ (api.endpoint = "ping" /\ api'.pc = "done") => api'.status = 200]_vars

\* C23: after a sync whose payload has sleep sessions ending on its target
\* date, with S the session store_sync selects among them, the five sleep
\* fields of that date's summary row are S's: sleep_duration_min is S's
\* total_duration_min and the deep, rem, core and awake minutes are the sums of
\* S's own stages (a sum of 0 shown as null); none is a value an earlier sync's
\* session left there.
C23_SleepFromOneSession ==
    [][Commits =>
         (DateSleeps(req[1]) # << >> =>
             LET S == LongestSleep(DateSleeps(req[1]))
             IN  \E r2 \in disk'.daily_summary :
                    /\ r2.date = Target
                    /\ r2.sleep_duration_min = OrNone(S.total_duration_min)
                    /\ r2.deep_sleep_min = OrNone(StageTotal(S, "deep"))
                    /\ r2.rem_sleep_min = OrNone(StageTotal(S, "rem"))
                    /\ r2.core_sleep_min = OrNone(StageTotal(S, "core"))
                    /\ r2.awake_min = OrNone(StageTotal(S, "awake")))]_vars

\* The payload of the sync committed last.
LastPayload(db) ==
    (CHOOSE l \in db.sync_log : \A o \in db.sync_log : o.id <= l.id).payload_json.json

\* C24: a payload synced a second time, right after its first sync,
\* leaves every daily_summary row (all data fields) and every sleep_sessions
\* row as the first sync left them: nothing is counted twice, nothing is lost,
\* no row is added.
C24_ResubmitIdempotent ==
    [][(Commits /\ disk.sync_log # {} /\ LastPayload(disk) = req[1]) =>
          /\ disk'.daily_summary = disk.daily_summary
          /\ disk'.sleep_sessions = disk.sleep_sessions
          /\ StoreSync(disk', req[1]).daily_summary = disk.daily_summary
          /\ StoreSync(disk', req[1]).sleep_sessions = disk.sleep_sessions]_vars

\* C24 witness: the payload carrying every category was committed twice in a
\* row; its date has one summary row and its two sessions one row each.
C24_Witness ==
    /\ pc = "return"
    /\ req[1] = Full(Target)
    /\ \E a, b \in disk.sync_log :
          a.id + 1 = b.id /\ a.payload_json = b.payload_json /\ b.payload_json.json = req[1]
    /\ Cardinality({r \in disk.daily_summary : r.date = Target}) = 1
    /\ Cardinality({r \in disk.sleep_sessions : r.date = Target}) = 2

\* C25: in every state, in the file and in an open transaction alike, the
\* date of every sleep_sessions row is the calendar date of its end_time, also
\* when an upsert has overwritten the row; a row that starts on the day before
\* it ends is filed under the day it ends.
C25_SleepDatedByEnd ==
    \A db \in {disk, txn} :
       \A r \in db.sleep_sessions : r.date = r.end_time[1]

\* C25 witness: an overnight session was stored and later overwritten by a
\* resubmission with another end time; its row starts the evening before its date.
C25_Witness ==
    \E r \in disk.sleep_sessions, d \in Days :
       /\ r.date = d
       /\ r.start_time = IsoFormat(Redo(d).start)
       /\ r.start_time[1] = d - 1
       /\ r.end_time = IsoFormat(Redo(d).end)
       /\ \E l \in disk.sync_log : Night(d) \in Elems(l.payload_json.json.sleep)

\* C26: non-null is monotone in daily_summary. Whatever step is taken, a data
\* field of a summary row that holds a value holds a value afterwards, in the
\* file and within a transaction; no row carrying values disappears.
C26_NonNullMonotone ==
    [][/\ \A r \in disk.daily_summary :
             \E r2 \in disk'.daily_summary :
                /\ r2.date = r.date
                /\ \A c \in DataCols : r[c] # None => r2[c] # None
       /\ (pc' \notin {"idle", "boot", "insert_log"}) =>
             \A r \in disk.daily_summary :
                \E r2 \in txn'.daily_summary :
                   /\ r2.date = r.date
                   /\ \A c \in DataCols : r[c] # None => r2[c] # None]_vars

\* C26 witness: a date's row got its values from a payload with every
\* category, and a payload with no category but heart was committed after it;
\* every field the first payload set still holds a value.
C26_Witness ==
    /\ pc = "return"
    /\ req[1] = [Bare(Target) EXCEPT !.heart = Some(HeartRest)]
    /\ \E l \in disk.sync_log : l.payload_json.json = Full(Target)
    /\ \E r \in disk.daily_summary :
          /\ r.date = Target
          /\ r.resting_hr = Some(55)
          /\ \A c \in DataCols \ {"body_fat_pct"} : r[c] # None

\* The columns store_sync computes as totals and passes as `total or None`.
DerivedCols == SleepCols \cup WorkoutCols \cup {"mindfulness_minutes"}

\* C27: in every state no derived total of a daily_summary row is 0: it is
\* null or non-zero. A sync whose computed total is 0 leaves the stored value of
\* that field as it was, so it neither stores 0 nor resets a non-zero value,
\* while a directly reported steps=0 replaces the stored steps.
C27_ZeroTotalIsAbsent ==
    [][/\ \A db \in {disk', txn'} :
             \A r \in db.daily_summary : \A c \in DerivedCols : r[c] # Some(0)
       /\ Commits =>
             /\ \A r \in disk.daily_summary :
                   r.date = Target =>
                      \E r2 \in disk'.daily_summary :
                         /\ r2.date = Target
                         /\ (WorkoutMinutes(req[1]) = 0) => r2.workout_minutes = r.workout_minutes
                         /\ (WorkoutCalories(req[1]) = 0) => r2.workout_calories = r.workout_calories
                         /\ (MindfulnessMin(req[1]) = 0) => r2.mindfulness_minutes = r.mindfulness_minutes
                         /\ (SleepTotals(req[1]).sleep = 0) => r2.sleep_duration_min = r.sleep_duration_min
                         /\ (SleepTotals(req[1]).deep = 0) => r2.deep_sleep_min = r.deep_sleep_min
             /\ FieldOf(req[1].activity, "steps") = Some(0) =>
                   \E r2 \in disk'.daily_summary : r2.date = Target /\ r2.steps = Some(0)]_vars

\* C27 witness: after a payload with every category, a payload with a workout
\* and a mindfulness session of no duration was committed for the same date;
\* the row keeps the minutes of the first.
C27_Witness ==
    /\ pc = "return"
    /\ req[1] = Midday(Target)
    /\ \E l \in disk.sync_log : l.payload_json.json = Full(Target)
    /\ \E r \in disk.daily_summary :
          /\ r.date = Target
          /\ r.mindfulness_minutes = Some(10)
          /\ r.workout_minutes = Some(60)
          /\ r.workout_count = Some(1)

\* The step in which init_db runs: at the first start, or at a restart.
InitDbRuns == pc \in {"boot", "idle"} /\ pc' = "idle"

\* C22: init_db is idempotent and safe on fresh and populated storage. Run on
\* any state of the file it leaves a state a second run would not change; it
\* removes no row but sleep_sessions rows that share (date, start_time) with a
\* row of smaller id, which it keeps; it changes no other table, the meal
\* tables included; afterwards (date, start_time) is unique in sleep_sessions;
\* and on a file it has initialised before it changes nothing.
C22_InitDbIdempotent ==
    [][InitDbRuns =>
         /\ InitDbResult(disk') = disk'
         /\ disk'.sleep_sessions \subseteq disk.sleep_sessions
         /\ \A r \in disk.sleep_sessions \ disk'.sleep_sessions :
               \E o \in disk'.sleep_sessions :
                  o.date = r.date /\ o.start_time = r.start_time /\ o.id < r.id
         /\ \A t \in Tables \ {"sleep_sessions"} : disk'[t] = disk[t]
         /\ disk'.seq = disk.seq
         /\ meals' = meals
         /\ UniqueKey(disk'.sleep_sessions)
         /\ disk'.sleep_unique
         /\ pc = "idle" => disk' = disk]_vars

\* C22 witness: the file of the earlier version was migrated at the first
\* start (of the night stored twice the row of id 1 is left, not the one of
\* id 2) and syncs with sleep sessions were stored since: the populated file
\* on which every restart runs init_db again.
C22_Witness ==
    /\ pc = "idle"
    /\ resp.status = "ok"
    /\ {r.id : r \in disk.sleep_sessions} \cap {1, 2, 3} = {1, 3}
    /\ disk.seq["sleep_sessions"] > 3
    /\ disk.sync_log # {}
    /\ disk.daily_summary # {}

\* The nutrients of a meal in the order of their rowids, as (name, amount, unit).
NutrientList(m, meal_id) ==
    LET rows == NutrientRows(m, meal_id)
        byId == CHOOSE f \in [1 .. Cardinality(rows) -> rows] :
                   \A i, j \in 1 .. Cardinality(rows) : i < j => f[i].id < f[j].id
    IN  [i \in 1 .. Cardinality(rows) |->
            [name |-> byId[i].nutrient_name, amount |-> byId[i].amount, unit |-> byId[i].unit]]

\* C28: no orphan nutrients. After any sequence of stores, updates and
\* deletes, every meal_nutrients row references a meal_entries row; a delete
\* removes the meal and all of its nutrients and nothing of another meal; an
\* update with a nutrient list leaves the meal with exactly that list as its
\* nutrients and every other meal's nutrients as they were; a store adds the
\* meal's nutrients under the new meal's id.
C28_NoOrphanNutrients ==
    [][/\ \A n \in meals'.meal_nutrients : MealExists(meals', n.meal_entry_id)
       /\ \A meal_id \in MealIds :
             /\ MealDelete(meal_id) =>
                   /\ meals'.meal_nutrients = meals.meal_nutrients \ NutrientRows(meals, meal_id)
                   /\ meals'.meal_entries = meals.meal_entries \ MealRows(meals, meal_id)
             /\ \A request \in MealUpdateRequests :
                   (MealUpdate(meal_id, request) /\ MealExists(meals, meal_id)) =>
                      /\ NutrientList(meals', meal_id) = UpdateArgs(request).nutrients[1]
                      /\ \A other \in MealIds \ {meal_id} :
                            NutrientRows(meals', other) = NutrientRows(meals, other)
       /\ \A a \in MealArgs :
             MealStored(a) =>
                /\ meals.meal_nutrients \subseteq meals'.meal_nutrients
                /\ NutrientList(meals', meals'.seq["meal_entries"]) = a.nutrients]_vars

\* C28 witness: of two stored meals with nutrients one was given a new list by
\* an update and then the other was deleted; the nutrients left are the list.
C28_Witness ==
    /\ reply.op = "delete"
    /\ reply.status = 200
    /\ Cardinality(meals.meal_entries) = 1
    /\ meals.seq["meal_entries"] = 2
    /\ \E r \in meals.meal_entries, request \in MealUpdateRequests :
          /\ request.food_items # << >>
          /\ NutrientList(meals, r.id) = UpdateArgs(request).nutrients[1]
          /\ Cardinality(meals.meal_nutrients) = Len(UpdateArgs(request).nutrients[1])

\* The sum of col over the meals dated date, taken meal by meal in id order.
DayTotal(m, date, col) ==
    SumSeq([i \in 1 .. m.seq["meal_entries"] |->
               IF \E r \in m.meal_entries : r.id = i /\ r.date = date /\ r[col] # None
               THEN (CHOOSE r \in m.meal_entries : r.id = i)[col][1]
               ELSE 0])

\* The sum of the amounts of one nutrient over the meals dated date, row by row.
DayNutrient(m, date, name, unit) ==
    SumSeq([i \in 1 .. m.seq["meal_nutrients"] |->
               IF \E n \in m.meal_nutrients :
                     /\ n.id = i /\ n.nutrient_name = name /\ n.unit = unit
                     /\ \E r \in m.meal_entries : r.id = n.meal_entry_id /\ r.date = date
               THEN (CHOOSE n \in m.meal_nutrients : n.id = i).amount
               ELSE 0])

\* C21: the nutrition summary counts and sums exactly the meal_entries whose
\* date is the requested date, and the nutrients of those meals, never those
\* of other dates; without a date parameter the requested date is the server's
\* current date; a parameter that does not parse as a date is answered 400 and
\* the store is not read.
C21_SummaryOfTheDate ==
    [][\A param \in DateParams, today \in LocalDates(nut.now) :
          NutritionSummary(param, today) =>
             LET date == IF param = None THEN ExtendedText(today) ELSE param[1]
             IN  /\ reply'.status \in {200, 400}
                 /\ reply'.status = 400 =>
                       /\ None \in FromIsoFormat(date)
                       /\ reply'.body = None
                       /\ api'.connects = 0
                 /\ FromIsoFormat(date) = {None} => reply'.status = 400
                 /\ param = None => reply'.status = 200
                 /\ reply'.status = 200 =>
                       LET body == reply'.body[1]
                           on == {r \in meals.meal_entries : r.date = date}
                       IN  /\ body.date = date
                           /\ body.meal_count = Cardinality(on)
                           /\ body.total_calories = DayTotal(meals, date, "total_calories")
                           /\ body.total_protein_g = DayTotal(meals, date, "total_protein_g")
                           /\ body.total_carbs_g = DayTotal(meals, date, "total_carbs_g")
                           /\ body.total_fat_g = DayTotal(meals, date, "total_fat_g")
                           /\ \A x \in body.nutrients :
                                 /\ x.total_amount = DayNutrient(meals, date, x.nutrient_name, x.unit)
                                 /\ \E n \in meals.meal_nutrients :
                                       /\ n.nutrient_name = x.nutrient_name
                                       /\ \E r \in on : r.id = n.meal_entry_id
                           /\ \A n \in meals.meal_nutrients :
                                 (\E r \in on : r.id = n.meal_entry_id) =>
                                    \E x \in body.nutrients :
                                       x.nutrient_name = n.nutrient_name /\ x.unit = n.unit]_vars

\* C21 witness: meals are stored on two dates, two of them on the later one,
\* and the summary of that date counts two meals, not three.
C21_Witness ==
    /\ reply.op = "nsummary"
    /\ reply.status = 200
    /\ Cardinality(meals.meal_entries) = 3
    /\ reply.body[1].meal_count = 2
    /\ reply.body[1].date = nut.now
    /\ reply.body[1].total_calories = 400
    /\ \E r \in meals.meal_entries : r.date # nut.now /\ r.total_calories = Some(200)

====
